---- MODULE Spec2Model ----
(***************************************************************************)
(* Client-side session core of WebChatApp: ApiService (token storage,      *)
(* single-flight refresh, fetchWithAuth), AuthManager (credential cache,   *)
(* two-factor step-up), SocketManager (handshake) and the App handlers     *)
(* that drive them.  The browser runs one event loop: a step of the model  *)
(* is one macrotask (a user event, a network answer, a timer) or one       *)
(* promise continuation; continuations of a settled promise run before     *)
(* the next macrotask.                                                     *)
(***************************************************************************)
EXTENDS Integers, Sequences, FiniteSets, TLC

\* ---------------------------------------------------------------- bounds
NTasks == 2          \* async calls that may be in progress at once
MaxExchanges == 2    \* POST /api/refresh exchanges in one run
MaxTokens == 2       \* access tokens the issuer hands out in one run
MaxTicks == 1        \* clock ticks in one run
MaxEmit == 2         \* events emitted on one socket object
TickMs == 60000      \* milliseconds per clock tick
LifetimeS == 120     \* expires_in (seconds) the issuer declares
NPeers == 1          \* connections of other clients the server holds
MaxMsgs == 1         \* messages the server accepts in one run
MaxIn == 1           \* server events in flight to this client
NCalls == 1          \* createRoom and deleteRoom calls that may be in progress at once

\* ------------------------------------------------------ program constants
RefreshSkewMs == 120000   \* isTokenExpiringSoon: "less than 2 minutes remaining"
CodeLength == 6           \* handle2FALogin: code.length !== 6
MinRoomName == 2          \* createRoom: trimmedName.length < 2
MaxRoomName == 20         \* createRoom: trimmedName.length > 20

\* ---------------------------------------------------------------- values
NoToken == 0              \* an absent localStorage item / null token
NoExpiry == 0
NoPromise == 0            \* refreshPromise === null
Null == <<>>              \* null object; an object x is <<x>>
Tasks == 1..NTasks
Usernames == {"ann", "bob"}
Passwords == {"pw"}
Codes == {<<1, 2, 3, 4, 5, 6>>, <<1, 2>>}
Me == 0                   \* this client's connection, as the server numbers it
Peers == 1..NPeers        \* the connections of the other clients
Conns == {Me} \cup Peers
Rooms == {"general", "off-topic"}
Contents == {<<"a">>, <<" ", "a">>, <<" ">>, <<>>}   \* message input values
Calls == 1..NCalls
PeerInputs == {<<"m", "y", " ", " ", "r", "o", "o", "m">>}   \* rooms other clients create
RoomInputs ==             \* values of the new-room-name input
    {<<" ", " ", "M", "y", " ", "R", "o", "o", "m", " ", " ">>,
     <<"m", "y", " ", " ", "r", "o", "o", "m">>,
     <<"G", "e", "n", "e", "r", "a", "l">>,
     <<"a">>,
     <<" ">>,
     [i \in 1..MaxRoomName |-> "a"],
     [i \in 1..(MaxRoomName + 1) |-> "a"]}

VARIABLES
    ls,              \* localStorage: chatToken, chatRefreshToken, chatTokenExpiry, chatUser
    refreshPromise,  \* ApiService.refreshPromise: the exchange in flight, or NoPromise
    authToken,       \* AuthManager.authToken
    currentUser,     \* AuthManager.currentUser
    pending2FA,      \* AuthManager.pending2FA
    screen,          \* UIManager: which screen is shown, "auth" or "chat"
    socket,          \* SocketManager.socket: Null, or <<[up |-> transport is open]>>
    sockOut,         \* events emitted on the socket's open transport, not yet taken
                     \* by the server
    sendBuffer,      \* events emitted while the transport was not open (socket.io
                     \* keeps them until it opens)
    sockIn,          \* server events in flight to this client
    currentRoom,     \* RoomsManager.currentRoom
    messages,        \* ChatManager.messages: ids of the messages held
    loading,         \* rooms whose loadMessages request is in flight
    conn,            \* server: the Connection of each client, live or not,
                     \* authenticated (identity attached) or not
    members,         \* server: Room.members, the connections in each room
    sent,            \* what the latest step delivered to each connection
    msgSeq,          \* server: number of messages accepted
    rooms,           \* RoomsManager.rooms: the room names listed
    registry,        \* server: the rooms that exist
    roomCalls,       \* the createRoom and deleteRoom calls in progress, one per slot
    roomLoads,       \* the other loadRooms calls: whether a GET /api/rooms of
                     \* theirs is not answered yet
    last,            \* the operation the latest step performed, and for which
                     \* connection (observation only)
    xch,             \* the POST /api/refresh exchanges made so far: "pending", or how
                     \* each ended ("ok", "denied", "neterr")
    task,            \* the async calls in progress, one record per slot
    now,             \* Date.now()
    issued           \* issuer: number of access tokens handed out

vars == <<ls, refreshPromise, authToken, currentUser, pending2FA, screen, socket,
          sockOut, sendBuffer, sockIn, currentRoom, messages, loading, conn, members,
          sent, msgSeq, rooms, registry, roomCalls, roomLoads, last, xch, task,
          now, issued>>
authVars == <<authToken, currentUser, pending2FA>>
sockVars == <<socket, sockOut, sendBuffer, sockIn>>
listVars == <<rooms, registry, roomCalls, roomLoads>>
chatVars == <<currentRoom, messages, loading, listVars>>
srvVars == <<conn, members, sent, msgSeq, last>>
uiVars == <<screen, sockVars, chatVars, srvVars>>

\* ------------------------------------------------------------ ApiService

setTokens(store, accessToken, refreshToken, expiresIn, t) ==
    [store EXCEPT
        !.token = accessToken,
        !.refresh = IF refreshToken # NoToken THEN refreshToken ELSE @,
        !.expiry = IF expiresIn # 0 THEN t + (expiresIn * 1000) ELSE @]

clearTokens(store) ==
    [store EXCEPT !.token = NoToken, !.refresh = NoToken, !.expiry = NoExpiry]

isTokenExpiringSoonMutNoSkew(store, t) ==
    IF store.expiry = NoExpiry THEN TRUE
    ELSE t > store.expiry

isTokenExpiringSoonMutInclusive(store, t) ==
    IF store.expiry = NoExpiry THEN TRUE
    ELSE t >= store.expiry - RefreshSkewMs

isTokenExpiringSoon(store, t) ==
    IF store.expiry = NoExpiry THEN TRUE
    ELSE t > store.expiry - RefreshSkewMs

\* getHeaders(true): the Authorization header carries the stored token, if any.
getHeaders(store) == store.token

\* What a refreshAccessToken() call does, given refreshPromise rp, the stored
\* refresh token rt and the number n of exchanges made so far:
\* join the promise in flight, throw, or POST and store a new promise.
refreshAccessTokenMutNoGuard(rp, rt, n) ==
    IF rt = NoToken THEN [kind |-> "throw", promise |-> NoPromise]
    ELSE [kind |-> "post", promise |-> n + 1]

refreshAccessTokenMutNoTokenCheck(rp, rt, n) ==
    IF rp # NoPromise THEN [kind |-> "join", promise |-> rp]
    ELSE [kind |-> "post", promise |-> n + 1]

refreshAccessToken(rp, rt, n) ==
    IF rp # NoPromise THEN [kind |-> "join", promise |-> rp]
    ELSE IF rt = NoToken THEN [kind |-> "throw", promise |-> NoPromise]
    ELSE [kind |-> "post", promise |-> n + 1]

\* fetchWithAuth, line 111: refresh after the response only on a 401 with a
\* refresh token stored.
refreshOn401(status, rt) == status = "unauthorized" /\ rt # NoToken

\* fetchWithAuth, lines 112-121: the retry is sent only if the awaited refresh
\* did not throw.
retryAfterRefreshMutAlways(outcome) == TRUE

retryAfterRefresh(outcome) == outcome = "fulfilled"

\* The .then callback of the refresh exchange, on localStorage.
\* res: "ok" (response.ok), "denied" (!response.ok), "neterr" (fetch or json rejects).
refreshThenMutKeep(store, res, accessToken, expiresIn, t) ==
    IF res = "ok" THEN setTokens(store, accessToken, NoToken, expiresIn, t)
    ELSE store

refreshThenMutRotate(store, res, accessToken, expiresIn, t) ==
    IF res = "ok" THEN setTokens(store, accessToken, accessToken, expiresIn, t)
    ELSE IF res = "denied" THEN clearTokens(store)
    ELSE store

refreshThen(store, res, accessToken, expiresIn, t) ==
    IF res = "ok" THEN setTokens(store, accessToken, NoToken, expiresIn, t)
    ELSE IF res = "denied" THEN clearTokens(store)
    ELSE store

\* How the promise stored in refreshPromise settles for an exchange that ended
\* res: the .then callback returns data on "ok" and throws on "denied"; a
\* rejected fetch passes through .finally.
refreshSettledMutSwallow(res) == "fulfilled"

refreshFinallyMutKeep(rp) == rp

\* .finally(() => { this.refreshPromise = null })
refreshFinally(rp) == NoPromise

refreshSettled(res) ==
    IF res = "ok" THEN "fulfilled" ELSE "rejected"

\* ------------------------------------------------------------ AuthManager

saveAuthStore(store, accessToken, user, refreshToken) ==
    [store EXCEPT
        !.token = accessToken,
        !.user = <<user>>,
        !.refresh = IF refreshToken # NoToken THEN refreshToken ELSE @]

clearAuthStoreMutKeep(store) == store

clearAuthStore(store) ==
    [token |-> NoToken, refresh |-> NoToken, expiry |-> NoExpiry, user |-> Null]

isAuthenticated == authToken # NoToken /\ currentUser # Null

\* ------------------------------------------------------------------ tasks

\* A createRoom or deleteRoom call: which one, the room name it sends, and the
\* await it is suspended at ("sent": its POST or DELETE; "loadSent": the GET of
\* its loadRooms).
IdleCall == [op |-> "none", name |-> "", chars |-> <<>>, pc |-> "idle"]

NoLoads == [pending |-> FALSE]

IdleTask ==
    [fn |-> "none",       \* the call: "fetch", "refresh", "login", "login2fa", "register"
     pc |-> "idle",       \* where it stands: the await it is suspended at, or "done"
     aw |-> NoPromise,    \* the refresh exchange whose promise it awaits or last awaited
     held |-> NoToken,    \* the access token stored when it attempted its proactive refresh
     hdr |-> NoToken,     \* the Authorization token of its request in flight
     sends |-> 0,         \* times it has sent its operation
     re |-> 0,            \* refreshAccessToken() calls it made after a 401
     user |-> "", pass |-> "", code |-> <<>>,   \* the body of its login request
     ans |-> "none",      \* what the issuer answered to its login or register request
     result |-> "none"]   \* what the call returned, or how it threw

Free(t) == task[t].pc \in {"idle", "done"}

\* A new call takes the first free slot: the slots only name the calls.
Slot(t) == Free(t) /\ \A s \in 1..(t - 1) : ~Free(s)

\* The record a call leaves when it returns: which call, and what it returned
\* (or "error", "rejected", "noRefreshToken" when it threw).
Return(r, result) ==
    [IdleTask EXCEPT !.fn = r.fn, !.pc = "done", !.sends = r.sends, !.re = r.re,
                     !.ans = r.ans, !.result = result]

Settled(i) == xch[i] # "pending"

\* What a caller awaiting exchange i observes: "fulfilled" or "rejected".
Outcome(i) == refreshSettled(xch[i])

\* A continuation is runnable: its promise has settled.
Runnable(t) ==
    /\ task[t].pc \in {"proRefresh", "reRefresh", "awaitRefresh",
                      "vsRefresh", "vsReRefresh", "recRefresh"}
    /\ Settled(task[t].aw)

\* The microtask queue is empty: the event loop may take the next macrotask.
NoMicrotasks == \A t \in Tasks : ~Runnable(t)

\* ------------------------------------------- server: connections and rooms
\* The session bridge and the room engine of the backend, which is not part of
\* the client: what they do with the events a connection sends.

NoConn == [live |-> FALSE, identity |-> FALSE]
NewConn == [live |-> TRUE, identity |-> FALSE]

\* An operation ev performed for connection c; NoOp stands for the steps that
\* are neither a request to the server nor a room or message operation.
Op(c, ev) == [conn |-> c, ev |-> ev]
NoOp == Op(Me, [type |-> "none"])

\* Deliveries of one server step: the events for each connection, in order.
Nothing == [c \in Conns |-> <<>>]

RoomsOf(mb, c) == {r \in Rooms : c \in mb[r]}

Without(mb, c) == [q \in Rooms |-> mb[q] \ {c}]

\* user_left to the members that share a room with c.
LeftNotice(mb, c) ==
    [d \in Conns |->
        IF d # c /\ \E q \in RoomsOf(mb, c) : d \in mb[q]
        THEN <<[type |-> "user_left", username |-> c]>>
        ELSE <<>>]

\* authenticate: the issuer validates the token; the identity is attached on
\* success, and the connection is told the outcome.
srvAuthenticate(cn, c, ok) ==
    [conn |-> [cn EXCEPT ![c].identity = @ \/ ok],
     out |-> [Nothing EXCEPT ![c] = <<[type |-> "authenticated", success |-> ok]>>]]

\* join(connection, room): nothing for an unauthenticated connection or for the
\* room it is in already; otherwise an implicit leave of the room it is in, then
\* the connection is added, the other members of both rooms are notified and the
\* connection is told room_joined.
srvJoinMutNoImplicitLeave(mb, cn, c, r) ==
    IF ~cn[c].identity \/ c \in mb[r] THEN [members |-> mb, out |-> Nothing]
    ELSE [members |-> [mb EXCEPT ![r] = @ \cup {c}],
          out |-> [d \in Conns |->
                     IF d = c THEN <<[type |-> "room_joined", room |-> r]>>
                     ELSE IF d \in mb[r] THEN <<[type |-> "user_joined", username |-> c]>>
                     ELSE <<>>]]

srvJoinMutNotIdempotent(mb, cn, c, r) ==
    IF ~cn[c].identity THEN [members |-> mb, out |-> Nothing]
    ELSE [members |-> [Without(mb, c) EXCEPT ![r] = @ \cup {c}],
          out |-> [d \in Conns |->
                     IF d = c THEN <<[type |-> "room_joined", room |-> r]>>
                     ELSE LeftNotice([mb EXCEPT ![r] = {}], c)[d] \o
                          (IF d \in mb[r]
                           THEN <<[type |-> "user_joined", username |-> c]>>
                           ELSE <<>>)]]

srvJoinMutNoAuthCheck(mb, cn, c, r) ==
    IF c \in mb[r] THEN [members |-> mb, out |-> Nothing]
    ELSE [members |-> [Without(mb, c) EXCEPT ![r] = @ \cup {c}],
          out |-> [d \in Conns |->
                     IF d = c THEN <<[type |-> "room_joined", room |-> r]>>
                     ELSE LeftNotice(mb, c)[d] \o
                          (IF d \in mb[r]
                           THEN <<[type |-> "user_joined", username |-> c]>>
                           ELSE <<>>)]]

srvJoin(mb, cn, c, r) ==
    IF ~cn[c].identity \/ c \in mb[r] THEN [members |-> mb, out |-> Nothing]
    ELSE [members |-> [Without(mb, c) EXCEPT ![r] = @ \cup {c}],
          out |-> [d \in Conns |->
                     IF d = c THEN <<[type |-> "room_joined", room |-> r]>>
                     ELSE LeftNotice(mb, c)[d] \o
                          (IF d \in mb[r]
                           THEN <<[type |-> "user_joined", username |-> c]>>
                           ELSE <<>>)]]

\* leave(connection, room): the connection is removed from the room if it is in
\* it, and the remaining members are notified.
srvLeave(mb, cn, c, r) ==
    IF c \notin mb[r] THEN [members |-> mb, out |-> Nothing]
    ELSE [members |-> [mb EXCEPT ![r] = @ \ {c}],
          out |-> [d \in Conns |->
                     IF d # c /\ d \in mb[r]
                     THEN <<[type |-> "user_left", username |-> c]>>
                     ELSE <<>>]]

\* message: accepted from an authenticated connection, stored as message id, and
\* fanned out to the members the room has at this instant.
srvMessageMutAllRooms(mb, cn, c, id, content, r) ==
    IF ~cn[c].identity THEN Nothing
    ELSE [d \in Conns |->
            IF RoomsOf(mb, d) # {}
            THEN <<[type |-> "new_message", id |-> id, content |-> content, room |-> r]>>
            ELSE <<>>]

srvMessage(mb, cn, c, id, content, r) ==
    IF ~cn[c].identity THEN Nothing
    ELSE [d \in Conns |->
            IF d \in mb[r]
            THEN <<[type |-> "new_message", id |-> id, content |-> content, room |-> r]>>
            ELSE <<>>]

\* The transport of c is gone: c leaves every room, the remaining members are
\* notified, and the Connection is destroyed.
srvDropMutKeepsMember(mb, cn, c) ==
    [members |-> mb,
     conn |-> [cn EXCEPT ![c] = NoConn],
     out |-> LeftNotice(mb, c)]

srvDrop(mb, cn, c) ==
    [members |-> Without(mb, c),
     conn |-> [cn EXCEPT ![c] = NoConn],
     out |-> LeftNotice(mb, c)]

Init ==
    /\ ls = [token |-> NoToken, refresh |-> NoToken, expiry |-> NoExpiry, user |-> Null]
    /\ refreshPromise = NoPromise
    /\ authToken = NoToken
    /\ currentUser = Null
    /\ pending2FA = Null
    /\ screen = "auth"
    /\ socket = Null
    /\ sockOut = <<>>
    /\ sendBuffer = <<>>
    /\ sockIn = <<>>
    /\ currentRoom = "general"
    /\ messages = <<>>
    /\ loading = {}
    /\ rooms = {}
    /\ registry = {"general", "off-topic"}
    /\ roomCalls = [k \in Calls |-> IdleCall]
    /\ roomLoads = NoLoads
    /\ conn = [c \in Conns |-> NoConn]
    /\ members = [r \in Rooms |-> {}]
    /\ sent = Nothing
    /\ msgSeq = 0
    /\ last = NoOp
    /\ xch = <<>>
    /\ task = [t \in Tasks |-> IdleTask]
    /\ now = 0
    /\ issued = 0

\* The effect of a refreshAccessToken() call r on the exchanges.
StartRefresh(r) ==
    IF r.kind = "post"
    THEN /\ Len(xch) < MaxExchanges
         /\ xch' = Append(xch, "pending")
         /\ refreshPromise' = r.promise
    ELSE UNCHANGED <<xch, refreshPromise>>

\* A direct refreshAccessToken() call.
RefreshCall(t) ==
    /\ NoMicrotasks
    /\ Slot(t)
    /\ LET r == refreshAccessToken(refreshPromise, ls.refresh, Len(xch)) IN
       /\ StartRefresh(r)
       /\ task' = [task EXCEPT ![t] =
            IF r.kind = "throw"
            THEN Return([IdleTask EXCEPT !.fn = "refresh"], "noRefreshToken")
            ELSE [IdleTask EXCEPT !.fn = "refresh", !.pc = "awaitRefresh",
                                  !.aw = r.promise]]
    /\ UNCHANGED <<ls, authVars, uiVars, now, issued>>

RefreshResume(t) ==
    /\ task[t].pc = "awaitRefresh"
    /\ Settled(task[t].aw)
    /\ task' = [task EXCEPT ![t] =
         [Return(task[t], Outcome(task[t].aw)) EXCEPT !.aw = task[t].aw]]
    /\ UNCHANGED <<ls, refreshPromise, authVars, uiVars, xch, now, issued>>

\* The refresh exchange i ends: the .then callback and .finally run.
RefreshSettle(i, res, expiresIn) ==
    /\ NoMicrotasks
    /\ i \in DOMAIN xch
    /\ xch[i] = "pending"
    /\ res = "ok" => issued < MaxTokens
    /\ res # "ok" => expiresIn = 0
    /\ ls' = refreshThen(ls, res, issued + 1, expiresIn, now)
    /\ issued' = IF res = "ok" THEN issued + 1 ELSE issued
    /\ xch' = [xch EXCEPT ![i] = res]
    /\ refreshPromise' = refreshFinally(refreshPromise)
    /\ UNCHANGED <<authVars, uiVars, task, now>>

\* An authenticated request made from the chat screen (deleteMessage,
\* updateProfile, ...): fetchWithAuth(url) up to its first await.
FetchCall(t) ==
    /\ NoMicrotasks
    /\ screen = "chat"
    /\ Slot(t)
    /\ IF isTokenExpiringSoon(ls, now) /\ ls.refresh # NoToken
       THEN LET r == refreshAccessToken(refreshPromise, ls.refresh, Len(xch)) IN
            /\ StartRefresh(r)
            /\ task' = [task EXCEPT ![t] =
                 [IdleTask EXCEPT !.fn = "fetch", !.pc = "proRefresh",
                                  !.aw = r.promise, !.held = ls.token]]
       ELSE /\ task' = [task EXCEPT ![t] =
                 [IdleTask EXCEPT !.fn = "fetch", !.pc = "opSent",
                                  !.hdr = getHeaders(ls), !.sends = 1]]
            /\ UNCHANGED <<xch, refreshPromise>>
    /\ UNCHANGED <<ls, authVars, uiVars, now, issued>>

\* After the proactive refresh, whatever its outcome: send the operation.
FetchAfterProactive(t) ==
    /\ task[t].pc = "proRefresh"
    /\ Settled(task[t].aw)
    /\ task' = [task EXCEPT ![t].pc = "opSent", ![t].hdr = getHeaders(ls),
                            ![t].sends = @ + 1]
    /\ UNCHANGED <<ls, refreshPromise, authVars, uiVars, xch, now, issued>>

\* The operation's response arrives, status "ok" or "unauthorized" (401).
FetchResponse(t, status) ==
    /\ NoMicrotasks
    /\ task[t].pc = "opSent"
    /\ IF refreshOn401(status, ls.refresh)
       THEN LET r == refreshAccessToken(refreshPromise, ls.refresh, Len(xch)) IN
            /\ StartRefresh(r)
            /\ task' = [task EXCEPT ![t].pc = "reRefresh", ![t].aw = r.promise,
                                    ![t].re = @ + 1]
       ELSE /\ task' = [task EXCEPT ![t] = Return(task[t], status)]
            /\ UNCHANGED <<xch, refreshPromise>>
    /\ UNCHANGED <<ls, authVars, uiVars, now, issued>>

\* After the refresh that follows a 401: retry once, or let the 401 propagate.
FetchAfterReactive(t) ==
    /\ task[t].pc = "reRefresh"
    /\ Settled(task[t].aw)
    /\ IF retryAfterRefresh(Outcome(task[t].aw))
       THEN task' = [task EXCEPT ![t].pc = "retrySent", ![t].hdr = getHeaders(ls),
                                 ![t].sends = @ + 1]
       ELSE task' = [task EXCEPT ![t] = Return(task[t], "unauthorized")]
    /\ UNCHANGED <<ls, refreshPromise, authVars, uiVars, xch, now, issued>>

FetchRetryResponse(t, status) ==
    /\ NoMicrotasks
    /\ task[t].pc = "retrySent"
    /\ task' = [task EXCEPT ![t] = Return(task[t], status)]
    /\ UNCHANGED <<ls, refreshPromise, authVars, uiVars, xch, now, issued>>

\* ------------------------------------------------------------------ issuer
\* The identity issuer (backend, not part of the client): the answers it may give.

EmailHint(u) == IF u = "ann" THEN "a***@example.com" ELSE "b***@example.com"

NoData ==
    [ok |-> FALSE, requires_2fa |-> FALSE, email_hint |-> "", access_token |-> NoToken,
     refresh_token |-> NoToken, expires_in |-> 0, token |-> NoToken, user |-> Null]

\* A rejection: an error body with a non-2xx status.
Rejection == NoData

\* "Second factor required" for username u, with a 2xx status or not.
Requires2FA(u, ok) ==
    [NoData EXCEPT !.ok = ok, !.requires_2fa = TRUE, !.email_hint = EmailHint(u)]

\* What kind of answer data is.
AnswerKind(data) ==
    IF data.requires_2fa THEN "requires_2fa"
    ELSE IF data.ok THEN "success" ELSE "rejected"

\* A JWT success: access token n, refresh token n, a declared lifetime.
JwtSuccess(u, n, twoFA) ==
    [NoData EXCEPT !.ok = TRUE, !.access_token = n, !.refresh_token = n,
                   !.expires_in = LifetimeS,
                   !.user = <<[username |-> u, email2FAEnabled |-> twoFA]>>]

\* A legacy success: a bare token, no refresh token, no lifetime.
LegacySuccess(u, n) ==
    [NoData EXCEPT !.ok = TRUE, !.token = n,
                   !.user = <<[username |-> u, email2FAEnabled |-> FALSE]>>]

LoginAnswers(u) ==
    {Rejection, Requires2FA(u, TRUE), Requires2FA(u, FALSE)}
        \cup (IF issued < MaxTokens
              THEN {JwtSuccess(u, issued + 1, FALSE), LegacySuccess(u, issued + 1)}
              ELSE {})

Login2FAAnswers(u) ==
    {Rejection} \cup (IF issued < MaxTokens THEN {JwtSuccess(u, issued + 1, TRUE)} ELSE {})

RegisterAnswers(u) ==
    {Rejection} \cup (IF issued < MaxTokens THEN {JwtSuccess(u, issued + 1, FALSE)} ELSE {})

Issue(data) == issued' = IF AnswerKind(data) = "success" THEN issued + 1 ELSE issued

\* ------------------------------------------------- ApiService: auth endpoints

\* api.login on the response data: "requires2FA", "throws" or "data", and the
\* localStorage it leaves.
apiLoginMutOkFirst(store, data, t) ==
    IF ~data.ok THEN [kind |-> "throws", store |-> store]
    ELSE IF data.requires_2fa THEN [kind |-> "requires2FA", store |-> store]
    ELSE [kind |-> "data", store |-> setTokens(store, data.access_token,
                                               data.refresh_token, data.expires_in, t)]

apiLogin(store, data, t) ==
    IF data.requires_2fa THEN [kind |-> "requires2FA", store |-> store]
    ELSE IF ~data.ok THEN [kind |-> "throws", store |-> store]
    ELSE IF data.access_token # NoToken
    THEN [kind |-> "data", store |-> setTokens(store, data.access_token,
                                               data.refresh_token, data.expires_in, t)]
    ELSE IF data.token # NoToken
    THEN [kind |-> "data", store |-> [store EXCEPT !.token = data.token]]
    ELSE [kind |-> "data", store |-> store]

apiLogin2FA(store, data, t) ==
    IF ~data.ok THEN [kind |-> "throws", store |-> store]
    ELSE IF data.access_token # NoToken
    THEN [kind |-> "data", store |-> setTokens(store, data.access_token,
                                               data.refresh_token, data.expires_in, t)]
    ELSE [kind |-> "data", store |-> store]

apiRegister(store, data, t) ==
    IF ~data.ok THEN [kind |-> "throws", store |-> store]
    ELSE IF data.access_token # NoToken
    THEN [kind |-> "data", store |-> setTokens(store, data.access_token,
                                               data.refresh_token, data.expires_in, t)]
    ELSE IF data.token # NoToken
    THEN [kind |-> "data", store |-> [store EXCEPT !.token = data.token]]
    ELSE [kind |-> "data", store |-> store]

\* const token = data.access_token || data.token
TokenOf(data) == IF data.access_token # NoToken THEN data.access_token ELSE data.token

\* ------------------------------------------------------------ SocketManager

\* The transport of this client is gone: the server destroys its Connection.
ServerDropMe ==
    LET r == srvDrop(members, conn, Me) IN
    /\ members' = r.members
    /\ conn' = r.conn
    /\ sent' = r.out
    /\ UNCHANGED msgSeq

connectMutNoDisconnect(live) == <<[up |-> FALSE]>> \o live

\* SocketManager.connect on the live sockets of this client, the one held
\* first: the socket held is disconnected, the new one is the only one left.
connect(live) == <<[up |-> FALSE]>>

\* socket.connect(): drop the socket held, open a new one.
SocketConnectCall ==
    /\ socket' = connect(socket)
    /\ sockOut' = <<>>
    /\ sendBuffer' = <<>>
    /\ sockIn' = <<>>
    /\ ServerDropMe
    /\ last' = Op(Me, [type |-> "connect", replaced |-> socket # Null])

\* socket.disconnect(): what was in flight on the socket is lost.
SocketDisconnectCall ==
    /\ socket' = Null
    /\ sockOut' = <<>>
    /\ sendBuffer' = <<>>
    /\ sockIn' = <<>>
    /\ ServerDropMe

\* An emit of the events evs on the socket sock, net being what is in flight
\* (out) and what is buffered (buf): nothing without a socket (the guard of
\* joinRoom, leaveRoom, sendMessage); sent if the transport is open, else buffered.
emit(sock, net, evs) ==
    IF sock = Null THEN net
    ELSE IF sock[1].up THEN [net EXCEPT !.out = @ \o evs]
    ELSE [net EXCEPT !.buf = @ \o evs]

\* The 'connect' handler's handshake: auth.getToken() is AuthManager.authToken.
handshakeToken == authToken

\* The transport opens (first connect, or socket.io's reconnect): 'connect' fires.
SocketOnConnect ==
    /\ NoMicrotasks
    /\ socket # Null
    /\ ~socket[1].up
    /\ Len(sockOut) + Len(sendBuffer) <= MaxEmit
    /\ socket' = <<[up |-> TRUE]>>
    \* socket.io flushes its buffer before or after the 'connect' listeners run
    /\ \/ sockOut' = Append(sockOut \o sendBuffer,
                             [type |-> "authenticate", token |-> handshakeToken])
       \/ sockOut' = Append(sockOut, [type |-> "authenticate", token |-> handshakeToken])
                         \o sendBuffer
    /\ sendBuffer' = <<>>
    /\ conn' = [conn EXCEPT ![Me] = NewConn]
    /\ sent' = Nothing
    /\ last' = NoOp
    /\ UNCHANGED <<sockIn, chatVars, members, msgSeq>>
    /\ UNCHANGED <<screen, ls, refreshPromise, authVars, xch, task, now, issued>>

\* The transport is lost: 'disconnect' fires; socket.io will reconnect.
SocketOnDisconnect ==
    /\ NoMicrotasks
    /\ socket # Null
    /\ socket[1].up
    /\ socket' = <<[up |-> FALSE]>>
    /\ sockOut' = <<>>
    /\ sockIn' = <<>>
    /\ ServerDropMe
    /\ last' = NoOp
    /\ UNCHANGED <<sendBuffer, chatVars>>
    /\ UNCHANGED <<screen, ls, refreshPromise, authVars, xch, task, now, issued>>

\* ------------------------------------------------------- AuthManager and App

\* saveAuth, on the AuthManager fields.
SaveAuth(accessToken, user) ==
    /\ authToken' = accessToken
    /\ currentUser' = <<user>>

\* RoomsManager.loadRooms, up to its await: one more GET /api/rooms is sent.
loadRooms(loads) == [loads EXCEPT !.pending = TRUE]

\* App.enterChat: ui.showChatScreen(), socket.connect(), rooms.loadRooms().
EnterChat ==
    /\ screen' = "chat"
    /\ SocketConnectCall
    /\ roomLoads' = loadRooms(roomLoads)
    /\ UNCHANGED <<currentRoom, messages, loading, rooms, registry, roomCalls>>

\* pending2FA after auth.login, given what api.login returned.
authLoginPending(pend, kind, username, password, data) ==
    IF kind = "requires2FA"
    THEN <<[username |-> username, password |-> password, emailHint |-> data.email_hint]>>
    ELSE IF kind = "data" THEN Null
    ELSE pend

\* App.handleLogin up to the await of the POST /api/login response.
HandleLogin(t, u, p) ==
    /\ NoMicrotasks
    /\ screen = "auth"
    /\ Slot(t)
    /\ task' = [task EXCEPT ![t] =
         [IdleTask EXCEPT !.fn = "login", !.pc = "loginSent", !.user = u, !.pass = p]]
    /\ UNCHANGED <<ls, refreshPromise, authVars, uiVars, xch, now, issued>>

\* The login response arrives: api.login, auth.login and handleLogin continue.
LoginResponse(t, data) ==
    /\ NoMicrotasks
    /\ task[t].pc = "loginSent"
    /\ data \in LoginAnswers(task[t].user)
    /\ Issue(data)
    /\ LET r == apiLogin(ls, data, now) IN
       /\ pending2FA' = authLoginPending(pending2FA, r.kind, task[t].user, task[t].pass, data)
       /\ IF r.kind = "data"
          THEN /\ ls' = saveAuthStore(r.store, TokenOf(data), data.user[1], data.refresh_token)
               /\ SaveAuth(TokenOf(data), data.user[1])
               /\ EnterChat
               /\ task' = [task EXCEPT ![t] =
                    Return([task[t] EXCEPT !.ans = AnswerKind(data)], "success")]
          ELSE /\ ls' = r.store
               /\ UNCHANGED <<authToken, currentUser, uiVars>>
               /\ task' = [task EXCEPT ![t] =
                    Return([task[t] EXCEPT !.ans = AnswerKind(data)],
                           IF r.kind = "requires2FA" THEN "requires2FA" ELSE "error")]
    /\ UNCHANGED <<refreshPromise, xch, now>>

\* The request auth.login2FA hands to api.login2FA: none (it throws) without a
\* pending step-up, else the pending credentials with the code.
login2FARequestMutCodeOnly(pend, code) ==
    <<[username |-> "", password |-> "", email_2fa_code |-> code]>>

login2FARequest(pend, code) ==
    IF pend = Null THEN Null
    ELSE <<[username |-> pend[1].username, password |-> pend[1].password,
            email_2fa_code |-> code]>>

\* App.handle2FALogin up to the await of the response.
HandleLogin2FA(t, code) ==
    /\ NoMicrotasks
    /\ Slot(t)
    /\ IF Len(code) # CodeLength
       THEN task' = [task EXCEPT ![t] =
              Return([IdleTask EXCEPT !.fn = "login2fa"], "invalidCode")]
       ELSE LET req == login2FARequest(pending2FA, code) IN
            IF req = Null
            THEN task' = [task EXCEPT ![t] =
                   Return([IdleTask EXCEPT !.fn = "login2fa"], "error")]
            ELSE task' = [task EXCEPT ![t] =
                   [IdleTask EXCEPT !.fn = "login2fa", !.pc = "twoFASent",
                                    !.user = req[1].username, !.pass = req[1].password,
                                    !.code = req[1].email_2fa_code]]
    /\ UNCHANGED <<ls, refreshPromise, authVars, uiVars, xch, now, issued>>

\* pending2FA after auth.login2FA, given what api.login2FA returned.
authLogin2FAPendingMutKeep(pend, kind) == pend

authLogin2FAPendingMutClear(pend, kind) == Null

authLogin2FAPending(pend, kind) == IF kind = "data" THEN Null ELSE pend

Login2FAResponse(t, data) ==
    /\ NoMicrotasks
    /\ task[t].pc = "twoFASent"
    /\ data \in Login2FAAnswers(task[t].user)
    /\ Issue(data)
    /\ LET r == apiLogin2FA(ls, data, now) IN
       /\ pending2FA' = authLogin2FAPending(pending2FA, r.kind)
       /\ IF r.kind = "data"
          THEN /\ ls' = saveAuthStore(r.store, TokenOf(data), data.user[1], data.refresh_token)
               /\ SaveAuth(TokenOf(data), data.user[1])
               /\ EnterChat
               /\ task' = [task EXCEPT ![t] =
                    Return([task[t] EXCEPT !.ans = AnswerKind(data)], "success")]
          ELSE /\ ls' = r.store
               /\ UNCHANGED <<authToken, currentUser, uiVars>>
               /\ task' = [task EXCEPT ![t] =
                    Return([task[t] EXCEPT !.ans = AnswerKind(data)], "error")]
    /\ UNCHANGED <<refreshPromise, xch, now>>

\* The cancel button of the 2FA login modal: auth.cancelPending2FA().
CancelPending2FA ==
    /\ NoMicrotasks
    /\ pending2FA' = Null
    /\ UNCHANGED <<ls, refreshPromise, authToken, currentUser, uiVars, xch, task,
                   now, issued>>

HandleRegister(t, u, p) ==
    /\ NoMicrotasks
    /\ screen = "auth"
    /\ Slot(t)
    /\ task' = [task EXCEPT ![t] =
         [IdleTask EXCEPT !.fn = "register", !.pc = "registerSent", !.user = u, !.pass = p]]
    /\ UNCHANGED <<ls, refreshPromise, authVars, uiVars, xch, now, issued>>

RegisterResponse(t, data) ==
    /\ NoMicrotasks
    /\ task[t].pc = "registerSent"
    /\ data \in RegisterAnswers(task[t].user)
    /\ Issue(data)
    /\ LET r == apiRegister(ls, data, now) IN
       IF r.kind = "data"
       THEN /\ ls' = saveAuthStore(r.store, TokenOf(data), data.user[1], data.refresh_token)
            /\ SaveAuth(TokenOf(data), data.user[1])
            /\ EnterChat
            /\ task' = [task EXCEPT ![t] =
                    Return([task[t] EXCEPT !.ans = AnswerKind(data)], "success")]
       ELSE /\ ls' = r.store
            /\ UNCHANGED <<authToken, currentUser, uiVars>>
            /\ task' = [task EXCEPT ![t] =
                    Return([task[t] EXCEPT !.ans = AnswerKind(data)], "error")]
    /\ UNCHANGED <<pending2FA, refreshPromise, xch, now>>

\* AuthManager.clearAuth
ClearAuth ==
    /\ ls' = clearAuthStore(clearTokens(ls))
    /\ authToken' = NoToken
    /\ currentUser' = Null
    /\ pending2FA' = Null

\* App.logout: socket.disconnect(), auth.clearAuth(), rooms.reset(),
\* chat.clearMessages(), ui.showAuthScreen().
logout ==
    /\ SocketDisconnectCall
    /\ ClearAuth
    /\ currentRoom' = "general"
    /\ messages' = <<>>
    /\ screen' = "auth"
    /\ rooms' = {}
    /\ UNCHANGED <<loading, registry, roomCalls, roomLoads>>
    /\ UNCHANGED <<refreshPromise, xch, task, now, issued>>

\* The logout button of the chat screen.
Logout ==
    /\ NoMicrotasks
    /\ screen = "chat"
    /\ logout
    /\ last' = NoOp

Tick ==
    /\ NoMicrotasks
    /\ now < MaxTicks * TickMs
    /\ now' = now + TickMs
    /\ UNCHANGED <<ls, refreshPromise, authVars, uiVars, xch, task, issued>>

\* ---------------------------------------------------------- specifications

\* fetchWithAuth calls, the refreshes they start and the answers they get.
TokenActions ==
    \/ \E i \in 1..MaxExchanges, res \in {"ok", "denied", "neterr"}, e \in {0, LifetimeS} :
           RefreshSettle(i, res, e)
    \/ \E t \in Tasks : FetchCall(t)
    \/ \E t \in Tasks : FetchAfterProactive(t)
    \/ \E t \in Tasks, s \in {"ok", "unauthorized"} : FetchResponse(t, s)
    \/ \E t \in Tasks : FetchAfterReactive(t)
    \/ \E t \in Tasks, s \in {"ok", "unauthorized"} : FetchRetryResponse(t, s)

\* The token lifecycle: a user logs in (no second factor), the client makes
\* authenticated requests and refreshes, time passes.
Next ==
    \/ TokenActions
    \/ \E t \in Tasks : RefreshCall(t)
    \/ \E t \in Tasks : RefreshResume(t)
    \/ Tick
    \/ \E t \in Tasks : HandleLogin(t, "ann", "pw")
    \/ \E t \in Tasks : \E d \in {x \in LoginAnswers(task[t].user) : ~x.requires_2fa} :
           LoginResponse(t, d)

Spec == Init /\ [][Next]_vars

\* The promise continuations: the microtask queue is always drained.
Continuations ==
    \E t \in Tasks : RefreshResume(t) \/ FetchAfterProactive(t) \/ FetchAfterReactive(t)

FairSpec == Spec /\ WF_vars(Continuations)

\* The step-up flow on the auth screen: login, second-factor verification,
\* cancellation, registration, and logout once in the chat.
NextStepUp ==
    \/ \E t \in Tasks, u \in Usernames, p \in Passwords : HandleLogin(t, u, p)
    \/ \E t \in Tasks : \E d \in LoginAnswers(task[t].user) : LoginResponse(t, d)
    \/ \E t \in Tasks, c \in Codes : HandleLogin2FA(t, c)
    \/ \E t \in Tasks : \E d \in Login2FAAnswers(task[t].user) : Login2FAResponse(t, d)
    \/ CancelPending2FA
    \/ \E t \in Tasks, u \in Usernames, p \in Passwords : HandleRegister(t, u, p)
    \/ \E t \in Tasks : \E d \in RegisterAnswers(task[t].user) : RegisterResponse(t, d)
    \/ Logout

SpecStepUp == Init /\ [][NextStepUp]_vars

\* The session as the user drives it: login, registration, logout,
\* authenticated requests with their refreshes, the socket's transport going
\* up and down, time passing.
NextSession ==
    \/ TokenActions
    \/ Tick
    \/ \E t \in Tasks : HandleLogin(t, "ann", "pw")
    \/ \E t \in Tasks : \E d \in {x \in LoginAnswers(task[t].user) : ~x.requires_2fa} :
           LoginResponse(t, d)
    \/ \E t \in Tasks : HandleRegister(t, "bob", "pw")
    \/ \E t \in Tasks : \E d \in RegisterAnswers(task[t].user) : RegisterResponse(t, d)
    \/ Logout
    \/ SocketOnConnect
    \/ SocketOnDisconnect

SpecSession == Init /\ [][NextSession]_vars

\* ------------------------------------------- RoomsManager and ChatManager

\* SocketManager.joinRoom, leaveRoom, sendMessage: the event each one emits.
joinRoom(room) == <<[type |-> "join", room |-> room]>>

leaveRoom(room) == <<[type |-> "leave", room |-> room]>>

socketSendMessage(content, room) ==
    <<[type |-> "message", content |-> content, room |-> room]>>

switchRoomMutNoLeave(cur, room) ==
    IF room = cur THEN [currentRoom |-> cur, events |-> <<>>, changed |-> FALSE]
    ELSE [currentRoom |-> room, events |-> joinRoom(room), changed |-> TRUE]

switchRoomMutNoGuard(cur, room) ==
    [currentRoom |-> room, events |-> leaveRoom(cur) \o joinRoom(room), changed |-> TRUE]

\* RoomsManager.switchRoom: the room held afterwards, the events emitted in
\* order, and whether onRoomChange is called.
switchRoom(cur, room) ==
    IF room = cur THEN [currentRoom |-> cur, events |-> <<>>, changed |-> FALSE]
    ELSE [currentRoom |-> room, events |-> leaveRoom(cur) \o joinRoom(room),
          changed |-> TRUE]

RECURSIVE TrimStart(_)
TrimStart(s) ==
    IF s # <<>> /\ Head(s) = " " THEN TrimStart(Tail(s)) ELSE s

RECURSIVE TrimEnd(_)
TrimEnd(s) ==
    IF s # <<>> /\ s[Len(s)] = " " THEN TrimEnd(SubSeq(s, 1, Len(s) - 1)) ELSE s

\* String.prototype.trim on a sequence of characters
Trim(s) == TrimEnd(TrimStart(s))

sendMessageMutNoTrim(content, cur) ==
    IF Trim(content) = <<>> THEN <<>> ELSE socketSendMessage(content, cur)

\* ChatManager.sendMessage: the events emitted for the input content.
sendMessage(content, cur) ==
    IF Trim(content) = <<>> THEN <<>> ELSE socketSendMessage(Trim(content), cur)

\* ChatManager.sendMessage: what it returns for the input content.
sendMessageReturns(content) == Trim(content) # <<>>

addMessageMutTwice(msgs, message) == Append(Append(msgs, message.id), message.id)

\* ChatManager.addMessage
addMessage(msgs, message) == Append(msgs, message.id)

handleAuthenticatedMutGeneral(cur) == joinRoom("general")

\* The app's handler of the 'authenticated' signal: the events it emits.
handleAuthenticated(cur) == joinRoom(cur)

onAuthenticatedMutAlways(data) == "authenticated"

\* The 'authenticated' listener of SocketManager.connect: the signal it raises.
onAuthenticated(data) ==
    IF data.success THEN "authenticated" ELSE "auth_failed"

\* A step of this client: the server does nothing and delivers nothing.
ClientStep(ev) ==
    /\ sent' = Nothing
    /\ last' = Op(Me, ev)
    /\ UNCHANGED <<conn, members, msgSeq>>

\* The events evs are emitted on the socket held.
Emit(evs) ==
    LET net == emit(socket, [out |-> sockOut, buf |-> sendBuffer], evs) IN
    /\ Len(net.out) <= MaxEmit
    /\ Len(net.buf) <= MaxEmit
    /\ sockOut' = net.out
    /\ sendBuffer' = net.buf

\* A click on a room of the list: rooms.switchRoom(room), then onRoomChange
\* starts chat.loadMessages(room).
SwitchRoom(room) ==
    LET r == switchRoom(currentRoom, room) IN
    /\ NoMicrotasks
    /\ screen = "chat"
    /\ currentRoom' = r.currentRoom
    /\ Emit(r.events)
    /\ loading' = IF r.changed THEN loading \cup {room} ELSE loading
    /\ ClientStep([type |-> "switchRoom", room |-> room])
    /\ UNCHANGED <<messages, listVars, socket, sockIn>>
    /\ UNCHANGED <<screen, ls, refreshPromise, authVars, xch, task, now, issued>>

\* The message form is submitted with the input content.
SendMessage(content) ==
    /\ NoMicrotasks
    /\ screen = "chat"
    /\ Emit(sendMessage(content, currentRoom))
    /\ ClientStep([type |-> "sendMessage", content |-> content,
                   returned |-> sendMessageReturns(content)])
    /\ UNCHANGED <<chatVars, socket, sockIn>>
    /\ UNCHANGED <<screen, ls, refreshPromise, authVars, xch, task, now, issued>>

\* The 'authenticated' event arrives: on success the app joins the current
\* room, on failure it logs out.
SocketOnAuthenticated ==
    /\ NoMicrotasks
    /\ socket # Null
    /\ sockIn # <<>>
    /\ Head(sockIn).type = "authenticated"
    /\ IF onAuthenticated(Head(sockIn)) = "authenticated"
       THEN /\ Emit(handleAuthenticated(currentRoom))
            /\ sockIn' = Tail(sockIn)
            /\ ClientStep(Head(sockIn))
            /\ UNCHANGED <<chatVars, socket>>
            /\ UNCHANGED <<screen, ls, refreshPromise, authVars, xch, task, now, issued>>
       ELSE /\ logout
            /\ last' = Op(Me, Head(sockIn))

\* Another server event arrives: new_message is added to the messages held,
\* room_joined starts chat.loadMessages(room), room_created starts
\* rooms.loadRooms(); user_joined and user_left only show a notice.
onSocketErrorMutDrop(sock) == Null

\* The 'error' listener of the socket: it logs and triggers 'error', for which
\* the application registers no handler; the socket is kept.
onSocketError(sock) == sock

SocketOnEvent ==
    /\ NoMicrotasks
    /\ socket # Null
    /\ sockIn # <<>>
    /\ Head(sockIn).type # "authenticated"
    /\ sockIn' = Tail(sockIn)
    /\ socket' = IF Head(sockIn).type = "error" THEN onSocketError(socket) ELSE socket
    /\ messages' = IF Head(sockIn).type = "new_message"
                   THEN addMessage(messages, Head(sockIn)) ELSE messages
    /\ loading' = IF Head(sockIn).type = "room_joined"
                  THEN loading \cup {Head(sockIn).room} ELSE loading
    /\ roomLoads' = IF Head(sockIn).type = "room_created"
                    THEN loadRooms(roomLoads) ELSE roomLoads
    /\ ClientStep(Head(sockIn))
    /\ UNCHANGED <<currentRoom, sockOut, sendBuffer>>
    /\ UNCHANGED <<rooms, registry, roomCalls>>
    /\ UNCHANGED <<screen, ls, refreshPromise, authVars, xch, task, now, issued>>

\* The message ids from..to, in order.
IdRange(from, to) == [i \in 1..(to - from + 1) |-> from + i - 1]

\* What GET /messages/<room> can answer: messages stored so far.
Histories == {IdRange(a, b) : a \in 1..(msgSeq + 1), b \in 0..msgSeq}

\* chat.loadMessages(room) resumes: the history replaces the messages held;
\* a failure is only logged.
LoadMessagesResponse(room, ok, history) ==
    /\ NoMicrotasks
    /\ room \in loading
    /\ loading' = loading \ {room}
    /\ messages' = IF ok THEN history ELSE messages
    /\ ClientStep([type |-> "none"])
    /\ UNCHANGED <<currentRoom, listVars, sockVars>>
    /\ UNCHANGED <<screen, ls, refreshPromise, authVars, xch, task, now, issued>>

\* ------------------------------------------------------------ server steps

\* What the issuer can answer when asked to validate a handshake token.
Verdicts(token) == IF token = NoToken THEN {FALSE} ELSE {TRUE, FALSE}

\* The server handles the event ev of connection c; ok is the issuer's verdict
\* when ev is a handshake.
srvHandle(mb, cn, seq, c, ev, ok) ==
    CASE ev.type = "authenticate" ->
            LET r == srvAuthenticate(cn, c, ok) IN
            [members |-> mb, conn |-> r.conn, out |-> r.out, msgSeq |-> seq]
      [] ev.type = "join" ->
            LET r == srvJoin(mb, cn, c, ev.room) IN
            [members |-> r.members, conn |-> cn, out |-> r.out, msgSeq |-> seq]
      [] ev.type = "leave" ->
            LET r == srvLeave(mb, cn, c, ev.room) IN
            [members |-> r.members, conn |-> cn, out |-> r.out, msgSeq |-> seq]
      [] ev.type = "message" ->
            [members |-> mb, conn |-> cn,
             out |-> srvMessage(mb, cn, c, seq + 1, ev.content, ev.room),
             msgSeq |-> IF cn[c].identity THEN seq + 1 ELSE seq]

\* One server step with result r: its deliveries to this client go in flight.
ServerStep(r, c, ev) ==
    /\ last' = Op(c, ev)
    /\ r.msgSeq <= MaxMsgs
    /\ Len(sockIn) + Len(r.out[Me]) <= MaxIn
    /\ members' = r.members
    /\ conn' = r.conn
    /\ sent' = r.out
    /\ msgSeq' = r.msgSeq
    /\ sockIn' = sockIn \o r.out[Me]

\* The server takes the next event of this client.
ServerTake ==
    /\ sockOut # <<>>
    /\ conn[Me].live
    /\ \E ok \in (IF Head(sockOut).type = "authenticate"
                  THEN Verdicts(Head(sockOut).token) ELSE {TRUE}) :
           ServerStep(srvHandle(members, conn, msgSeq, Me, Head(sockOut), ok),
                      Me, Head(sockOut))
    /\ sockOut' = Tail(sockOut)
    /\ UNCHANGED <<socket, sendBuffer, chatVars>>
    /\ UNCHANGED <<screen, ls, refreshPromise, authVars, xch, task, now, issued>>

\* Another client connects.
PeerConnect(p) ==
    /\ ~conn[p].live
    /\ conn' = [conn EXCEPT ![p] = NewConn]
    /\ sent' = Nothing
    /\ last' = Op(p, [type |-> "connect"])
    /\ UNCHANGED <<members, msgSeq, sockVars, chatVars>>
    /\ UNCHANGED <<screen, ls, refreshPromise, authVars, xch, task, now, issued>>

\* What another client can send.
PeerEvents ==
    {[type |-> "authenticate", token |-> NoToken]}
        \cup {[type |-> "join", room |-> r] : r \in Rooms}
        \cup {[type |-> "leave", room |-> r] : r \in Rooms}
        \cup {[type |-> "message", content |-> <<"a">>, room |-> r] : r \in Rooms}

\* The server takes an event of another client.
PeerRequest(p, ev, ok) ==
    /\ conn[p].live
    /\ ServerStep(srvHandle(members, conn, msgSeq, p, ev, ok), p, ev)
    /\ UNCHANGED <<socket, sockOut, sendBuffer, chatVars>>
    /\ UNCHANGED <<screen, ls, refreshPromise, authVars, xch, task, now, issued>>

\* Another client's transport is lost.
PeerDisconnect(p) ==
    /\ conn[p].live
    /\ LET r == srvDrop(members, conn, p) IN
       ServerStep([members |-> r.members, conn |-> r.conn, out |-> r.out,
                   msgSeq |-> msgSeq], p, [type |-> "disconnect"])
    /\ UNCHANGED <<socket, sockOut, sendBuffer, chatVars>>
    /\ UNCHANGED <<screen, ls, refreshPromise, authVars, xch, task, now, issued>>

\* ann is logged in and the chat screen has just been entered; a step-up of an
\* earlier login attempt may still be pending.
InitRooms ==
    /\ LET data == JwtSuccess("ann", 1, FALSE)
           none == [token |-> NoToken, refresh |-> NoToken, expiry |-> NoExpiry,
                    user |-> Null]
       IN /\ ls = saveAuthStore(apiLogin(none, data, 0).store, TokenOf(data),
                                data.user[1], data.refresh_token)
          /\ authToken = TokenOf(data)
          /\ currentUser = <<data.user[1]>>
    /\ refreshPromise = NoPromise
    /\ pending2FA \in {Null, authLoginPending(Null, "requires2FA", "ann", "pw",
                                              Requires2FA("ann", TRUE))}
    /\ screen = "chat"
    /\ socket = <<[up |-> FALSE]>>
    /\ sockOut = <<>>
    /\ sendBuffer = <<>>
    /\ sockIn = <<>>
    /\ currentRoom = "general"
    /\ messages = <<>>
    /\ loading = {}
    /\ rooms = {}
    /\ registry = {"general", "off-topic"}
    /\ roomCalls = [k \in Calls |-> IdleCall]
    /\ roomLoads = loadRooms(NoLoads)
    /\ conn = [c \in Conns |-> NoConn]
    /\ members = [r \in Rooms |-> {}]
    /\ sent = Nothing
    /\ msgSeq = 0
    /\ last = NoOp
    /\ xch = <<>>
    /\ task = [t \in Tasks |-> IdleTask]
    /\ now = 0
    /\ issued = 1

NextRooms ==
    \/ SocketOnConnect
    \/ SocketOnDisconnect
    \/ SocketOnAuthenticated
    \/ SocketOnEvent
    \/ \E room \in Rooms : SwitchRoom(room)
    \/ \E content \in Contents : SendMessage(content)
    \/ \E room \in Rooms, ok \in BOOLEAN, history \in Histories :
           LoadMessagesResponse(room, ok, history)
    \/ Logout
    \/ ServerTake
    \/ \E p \in Peers : PeerConnect(p)
    \/ \E p \in Peers, ev \in PeerEvents, ok \in BOOLEAN : PeerRequest(p, ev, ok)
    \/ \E p \in Peers : PeerDisconnect(p)

SpecRooms == InitRooms /\ [][NextRooms]_vars

\* --------------------------------------------- RoomsManager: the room list

\* String.prototype.toLowerCase, on the letters the inputs use
toLowerCase(ch) ==
    CASE ch = "M" -> "m" [] ch = "R" -> "r" [] ch = "G" -> "g" [] OTHER -> ch

\* replace(/\s+/g, '-'): each run of white space becomes one '-'.
RECURSIVE replaceSpaces(_)
replaceSpaces(s) ==
    IF s = <<>> THEN <<>>
    ELSE IF Head(s) = " " THEN <<"-">> \o replaceSpaces(TrimStart(s))
    ELSE <<Head(s)>> \o replaceSpaces(Tail(s))

\* The string made of the characters s.
RECURSIVE Join(_)
Join(s) == IF s = <<>> THEN "" ELSE Head(s) \o Join(Tail(s))

normalizeRoomNameMutNoCollapse(name) ==
    [i \in 1..Len(Trim(name)) |->
        IF Trim(name)[i] = " " THEN "-" ELSE toLowerCase(Trim(name)[i])]

\* name.trim().toLowerCase().replace(/\s+/g, '-'), as characters
normalizeRoomName(name) ==
    replaceSpaces([i \in 1..Len(Trim(name)) |-> toLowerCase(Trim(name)[i])])

createRoomMutNoUpperLimit(list, name) ==
    LET chars == normalizeRoomName(name) IN
    IF chars = <<>> THEN [result |-> "empty", chars |-> chars]
    ELSE IF Len(chars) < MinRoomName THEN [result |-> "length", chars |-> chars]
    ELSE IF Join(chars) \in list THEN [result |-> "exists", chars |-> chars]
    ELSE [result |-> "sent", chars |-> chars]

\* RoomsManager.createRoom, up to its first await: it throws ("empty",
\* "length", "exists") or sends POST /api/rooms with the normalized name.
createRoom(list, name) ==
    LET chars == normalizeRoomName(name) IN
    IF chars = <<>> THEN [result |-> "empty", chars |-> chars]
    ELSE IF Len(chars) < MinRoomName \/ Len(chars) > MaxRoomName
    THEN [result |-> "length", chars |-> chars]
    ELSE IF Join(chars) \in list THEN [result |-> "exists", chars |-> chars]
    ELSE [result |-> "sent", chars |-> chars]

\* App.handleCreateRoom: an input that is empty once trimmed is refused before
\* rooms.createRoom is called.
handleCreateRoom(list, input) ==
    IF Trim(input) = <<>> THEN [result |-> "empty", chars |-> <<>>]
    ELSE createRoom(list, Trim(input))

createRoomThenMutJoin(cur, name) == switchRoom(cur, name)

\* RoomsManager.createRoom after its loadRooms: it returns the result.
createRoomThen(cur, name) == [currentRoom |-> cur, events |-> <<>>, changed |-> FALSE]

deleteRoomMutNoGuard(name) == "sent"

\* RoomsManager.deleteRoom, up to its first await.
deleteRoom(name) == IF name = "general" THEN "protected" ELSE "sent"

deleteRoomThenMutStay(cur, name) ==
    [currentRoom |-> cur, events |-> <<>>, changed |-> FALSE]

\* RoomsManager.deleteRoom after its loadRooms: back to general if the room
\* deleted is the current one.
deleteRoomThen(cur, name) ==
    IF cur = name THEN switchRoom(cur, "general")
    ELSE [currentRoom |-> cur, events |-> <<>>, changed |-> FALSE]

\* ----------------------------------------------------- server: room registry

\* The name as the room engine normalizes it: trimmed, lower-cased, each run
\* of white space collapsed to one separator.
srvNormalize(chars) ==
    Join(replaceSpaces([i \in 1..Len(Trim(chars)) |-> toLowerCase(Trim(chars)[i])]))

srvCreateRoomMutNoExists(reg, chars) ==
    LET n == srvNormalize(chars) IN
    IF Len(n) < MinRoomName \/ Len(n) > MaxRoomName
    THEN [ok |-> FALSE, error |-> "InvalidRoomName", registry |-> reg, name |-> n]
    ELSE [ok |-> TRUE, error |-> "", registry |-> reg \cup {n}, name |-> n]

\* createRoom(name)
srvCreateRoom(reg, chars) ==
    LET n == srvNormalize(chars) IN
    IF Len(n) < MinRoomName \/ Len(n) > MaxRoomName
    THEN [ok |-> FALSE, error |-> "InvalidRoomName", registry |-> reg, name |-> n]
    ELSE IF n \in reg
    THEN [ok |-> FALSE, error |-> "RoomAlreadyExists", registry |-> reg, name |-> n]
    ELSE [ok |-> TRUE, error |-> "", registry |-> reg \cup {n}, name |-> n]

srvDeleteRoomMutGeneral(reg, mb, name) ==
    IF name \notin reg
    THEN [ok |-> FALSE, error |-> "RoomNotFound", registry |-> reg, members |-> mb]
    ELSE [ok |-> TRUE, error |-> "", registry |-> reg \ {name},
          members |-> [q \in Rooms |-> IF q = name THEN {} ELSE mb[q]]]

\* deleteRoom(name): the connections joined are treated as having left.
srvDeleteRoom(reg, mb, name) ==
    IF name = "general"
    THEN [ok |-> FALSE, error |-> "RoomProtected", registry |-> reg, members |-> mb]
    ELSE IF name \notin reg
    THEN [ok |-> FALSE, error |-> "RoomNotFound", registry |-> reg, members |-> mb]
    ELSE [ok |-> TRUE, error |-> "", registry |-> reg \ {name},
          members |-> [q \in Rooms |-> IF q = name THEN {} ELSE mb[q]]]

\* room_created to every live connection.
CreatedNotice(name) ==
    [c \in Conns |->
        IF conn[c].live THEN <<[type |-> "room_created", room |-> name]>> ELSE <<>>]

\* ------------------------------------------------------ room list: the steps

CallSlot(k) == roomCalls[k].pc = "idle" /\ \A j \in 1..(k - 1) : roomCalls[j].pc # "idle"

\* A step that touches neither the socket nor the messages.
ListStep(out, op) ==
    /\ Len(sockIn) + Len(out[Me]) <= MaxIn
    /\ sockIn' = sockIn \o out[Me]
    /\ sent' = out
    /\ last' = op
    /\ UNCHANGED <<conn, msgSeq, socket, messages>>
    /\ UNCHANGED <<screen, ls, refreshPromise, authVars, xch, task, now, issued>>

\* The create-room form is submitted with the value input.
CreateRoom(input) ==
    LET r == handleCreateRoom(rooms, input) IN
    /\ NoMicrotasks
    /\ screen = "chat"
    /\ IF r.result = "sent"
       THEN \E k \in Calls :
               /\ CallSlot(k)
               /\ roomCalls' = [roomCalls EXCEPT ![k] =
                      [op |-> "create", name |-> Join(r.chars), chars |-> r.chars,
                       pc |-> "sent"]]
       ELSE UNCHANGED roomCalls
    /\ ListStep(Nothing, Op(Me, [type |-> "createRoom", input |-> input,
                                 result |-> r.result]))
    /\ UNCHANGED <<currentRoom, loading, rooms, registry, roomLoads, members,
                   sockOut, sendBuffer>>

\* POST /api/rooms is answered, or fails on the way (transport, authorization):
\* on success createRoom goes on to its loadRooms, otherwise it throws.
CreateRoomResponse(k, through) ==
    LET a == srvCreateRoom(registry, roomCalls[k].chars) IN
    /\ NoMicrotasks
    /\ roomCalls[k].op = "create"
    /\ roomCalls[k].pc = "sent"
    /\ registry' = IF through THEN a.registry ELSE registry
    /\ roomCalls' = [roomCalls EXCEPT ![k] =
           IF through /\ a.ok THEN [@ EXCEPT !.pc = "loadSent"] ELSE IdleCall]
    /\ ListStep(IF through /\ a.ok THEN CreatedNotice(a.name) ELSE Nothing,
                Op(Me, [type |-> "createRoomAnswer", name |-> roomCalls[k].name,
                        result |-> IF ~through THEN "failed"
                                   ELSE IF a.ok THEN "created" ELSE a.error]))
    /\ UNCHANGED <<currentRoom, loading, rooms, roomLoads, members, sockOut, sendBuffer>>

\* A delete button of the room list is confirmed (or rooms.deleteRoom is called
\* for general, which has no button).
DeleteRoom(name) ==
    /\ NoMicrotasks
    /\ screen = "chat"
    /\ name \in rooms \cup {"general"}
    /\ IF deleteRoom(name) = "sent"
       THEN \E k \in Calls :
               /\ CallSlot(k)
               /\ roomCalls' = [roomCalls EXCEPT ![k] =
                      [op |-> "delete", name |-> name, chars |-> <<>>,
                       pc |-> "sent"]]
       ELSE UNCHANGED roomCalls
    /\ ListStep(Nothing, Op(Me, [type |-> "deleteRoom", name |-> name,
                                 result |-> deleteRoom(name)]))
    /\ UNCHANGED <<currentRoom, loading, rooms, registry, roomLoads, members,
                   sockOut, sendBuffer>>

\* DELETE /api/rooms/<name> is answered, or fails on the way.
DeleteRoomResponse(k, through) ==
    LET a == srvDeleteRoom(registry, members, roomCalls[k].name) IN
    /\ NoMicrotasks
    /\ roomCalls[k].op = "delete"
    /\ roomCalls[k].pc = "sent"
    /\ registry' = IF through THEN a.registry ELSE registry
    /\ members' = IF through THEN a.members ELSE members
    /\ roomCalls' = [roomCalls EXCEPT ![k] =
           IF through /\ a.ok THEN [@ EXCEPT !.pc = "loadSent"] ELSE IdleCall]
    /\ ListStep(Nothing,
                Op(Me, [type |-> "deleteRoomAnswer", name |-> roomCalls[k].name,
                        result |-> IF ~through THEN "failed"
                                   ELSE IF a.ok THEN "deleted" ELSE a.error]))
    /\ UNCHANGED <<currentRoom, loading, rooms, roomLoads, sockOut, sendBuffer>>

\* A call's loadRooms gets the rooms that exist from GET /api/rooms, or (ok
\* false) a failure that it only logs; then createRoom returns, and deleteRoom
\* leaves the room deleted if it is the current one.
CallLoadResume(k, ok) ==
    LET c == roomCalls[k]
        r == IF c.op = "delete" THEN deleteRoomThen(currentRoom, c.name)
             ELSE createRoomThen(currentRoom, c.name)
    IN
    /\ NoMicrotasks
    /\ c.pc = "loadSent"
    /\ rooms' = IF ok THEN registry ELSE rooms
    /\ currentRoom' = r.currentRoom
    /\ Emit(r.events)
    /\ loading' = IF r.changed THEN loading \cup {r.currentRoom} ELSE loading
    /\ roomCalls' = [roomCalls EXCEPT ![k] = IdleCall]
    /\ ListStep(Nothing, Op(Me, [type |-> c.op \o "RoomDone", name |-> c.name,
                                 loaded |-> ok]))
    /\ UNCHANGED <<registry, roomLoads, members>>

\* The loadRooms calls of enterChat and of room_created: the latest one gets the
\* rooms that exist from GET /api/rooms, or fails; more of them may be waiting.
LoadRoomsResume(ok, more) ==
    /\ NoMicrotasks
    /\ roomLoads.pending
    /\ rooms' = IF ok THEN registry ELSE rooms
    /\ roomLoads' = [pending |-> more]
    /\ ListStep(Nothing, Op(Me, [type |-> "loadRoomsDone", loaded |-> ok]))
    /\ UNCHANGED <<currentRoom, loading, registry, roomCalls, members,
                   sockOut, sendBuffer>>

\* Another client creates a room.
PeerCreateRoom(p, input) ==
    LET a == srvCreateRoom(registry, input) IN
    /\ registry' = a.registry
    /\ ListStep(IF a.ok THEN CreatedNotice(a.name) ELSE Nothing,
                Op(p, [type |-> "createRoomAnswer", name |-> a.name,
                       result |-> IF a.ok THEN "created" ELSE a.error]))
    /\ UNCHANGED <<currentRoom, loading, rooms, roomCalls, roomLoads, members,
                   sockOut, sendBuffer>>

\* Another client deletes a room.
PeerDeleteRoom(p, name) ==
    LET a == srvDeleteRoom(registry, members, name) IN
    /\ name \in registry
    /\ registry' = a.registry
    /\ members' = a.members
    /\ ListStep(Nothing,
                Op(p, [type |-> "deleteRoomAnswer", name |-> name,
                       result |-> IF a.ok THEN "deleted" ELSE a.error]))
    /\ UNCHANGED <<currentRoom, loading, rooms, roomCalls, roomLoads, sockOut, sendBuffer>>

\* The server rejects something this client asked for over the socket and
\* tells it so with an error event.
ServerError ==
    /\ conn[Me].live
    /\ ListStep([c \in Conns |-> IF c = Me THEN <<[type |-> "error"]>> ELSE <<>>],
                Op(Me, [type |-> "reject"]))
    /\ UNCHANGED <<currentRoom, loading, rooms, registry, roomCalls, roomLoads,
                   members, sockOut, sendBuffer>>

\* ann is logged in, the handshake has succeeded and the join of the room
\* selected has been handled; the loadRooms of enterChat is in progress.
InitRoomList ==
    /\ LET data == JwtSuccess("ann", 1, FALSE)
           none == [token |-> NoToken, refresh |-> NoToken, expiry |-> NoExpiry,
                    user |-> Null]
       IN /\ ls = saveAuthStore(apiLogin(none, data, 0).store, TokenOf(data),
                                data.user[1], data.refresh_token)
          /\ authToken = TokenOf(data)
          /\ currentUser = <<data.user[1]>>
    /\ refreshPromise = NoPromise
    /\ pending2FA = Null
    /\ screen = "chat"
    /\ socket = <<[up |-> TRUE]>>
    /\ sockOut = <<>>
    /\ sendBuffer = <<>>
    /\ sockIn = <<>>
    /\ currentRoom \in Rooms
    /\ messages = <<>>
    /\ loading = {currentRoom}
    /\ rooms = {}
    /\ registry = {"general", "off-topic"}
    /\ roomCalls = [k \in Calls |-> IdleCall]
    /\ roomLoads = loadRooms(NoLoads)
    /\ conn = [c \in Conns |-> IF c = Me THEN [live |-> TRUE, identity |-> TRUE]
                                ELSE NoConn]
    /\ members = [r \in Rooms |-> IF r = currentRoom THEN {Me} ELSE {}]
    /\ sent = Nothing
    /\ msgSeq = 0
    /\ last = Op(Me, [type |-> "room_joined", room |-> currentRoom])
    /\ xch = <<>>
    /\ task = [t \in Tasks |-> IdleTask]
    /\ now = 0
    /\ issued = 1

NextRoomList ==
    \/ SocketOnEvent
    \/ ServerTake
    \/ \E input \in RoomInputs : CreateRoom(input)
    \/ \E k \in Calls, through \in BOOLEAN : CreateRoomResponse(k, through)
    \/ \E name \in registry \cup rooms : DeleteRoom(name)
    \/ \E k \in Calls, through \in BOOLEAN : DeleteRoomResponse(k, through)
    \/ \E k \in Calls, ok \in BOOLEAN : CallLoadResume(k, ok)
    \/ \E ok \in BOOLEAN, more \in BOOLEAN : LoadRoomsResume(ok, more)
    \/ \E p \in Peers, input \in PeerInputs : PeerCreateRoom(p, input)
    \/ \E p \in Peers, name \in registry : PeerDeleteRoom(p, name)
    \/ ServerError

SpecRoomList == InitRoomList /\ [][NextRoomList]_vars

\* ------------------------------------- account: second-factor management

AccountCalls == {"resend", "disable"}
AccountPasswords == {"pw", "bad"}   \* values of the disable-2fa-password input

handleDisable2FAThenMutAlways(status, user) ==
    IF user # Null THEN <<[user[1] EXCEPT !.email2FAEnabled = FALSE]>> ELSE user

\* App.handleDisable2FA after await api.disable2FA(password): when the call
\* returned, the identity gets email2FAEnabled = false (a null identity makes
\* the assignment throw); when it threw, only an alert.
handleDisable2FAThen(status, user) ==
    IF status = "ok" /\ user # Null
    THEN <<[user[1] EXCEPT !.email2FAEnabled = FALSE]>>
    ELSE user

\* api.resend2FACode() or api.disable2FA(pw): fetchWithAuth up to its first await.
AccountCall(t, fn, pw) ==
    /\ NoMicrotasks
    /\ screen = "chat"
    /\ Slot(t)
    /\ IF isTokenExpiringSoon(ls, now) /\ ls.refresh # NoToken
       THEN LET r == refreshAccessToken(refreshPromise, ls.refresh, Len(xch)) IN
            /\ StartRefresh(r)
            /\ task' = [task EXCEPT ![t] =
                 [IdleTask EXCEPT !.fn = fn, !.pass = pw, !.pc = "proRefresh",
                                  !.aw = r.promise, !.held = ls.token]]
       ELSE /\ task' = [task EXCEPT ![t] =
                 [IdleTask EXCEPT !.fn = fn, !.pass = pw, !.pc = "opSent",
                                  !.hdr = getHeaders(ls), !.sends = 1]]
            /\ UNCHANGED <<xch, refreshPromise>>
    /\ UNCHANGED <<ls, authVars, uiVars, now, issued>>

\* The resend button of the settings: no condition on the step-up state.
HandleResend2FACode(t) == AccountCall(t, "resend", "")

\* The disable button is confirmed; an empty password is refused with an alert
\* before any request.
HandleDisable2FA(t, pw) == pw # "" /\ AccountCall(t, "disable", pw)

\* The response to the request (or to its one retry) arrives with status "ok",
\* "unauthorized" (401) or "rejected" (another failure); fetchWithAuth refreshes
\* after a first 401, else the call returns or throws and its handler goes on.
AccountResponse(t, status) ==
    /\ NoMicrotasks
    /\ task[t].fn \in AccountCalls
    /\ task[t].pc \in {"opSent", "retrySent"}
    /\ IF task[t].pc = "opSent" /\ refreshOn401(status, ls.refresh)
       THEN LET r == refreshAccessToken(refreshPromise, ls.refresh, Len(xch)) IN
            /\ StartRefresh(r)
            /\ task' = [task EXCEPT ![t].pc = "reRefresh", ![t].aw = r.promise,
                                    ![t].re = @ + 1]
            /\ UNCHANGED <<ls, currentUser>>
       ELSE LET u == IF task[t].fn = "disable"
                     THEN handleDisable2FAThen(status, currentUser)
                     ELSE currentUser
            IN /\ task' = [task EXCEPT ![t] =
                      [Return(task[t], status) EXCEPT !.pass = task[t].pass]]
               /\ currentUser' = u
               /\ ls' = IF u # currentUser THEN [ls EXCEPT !.user = u] ELSE ls
               /\ UNCHANGED <<xch, refreshPromise>>
    /\ UNCHANGED <<authToken, pending2FA, uiVars, now, issued>>

\* ann is logged in, with or without the second factor enabled, and the chat
\* screen has just been entered.
InitAccount ==
    /\ \E twoFA \in BOOLEAN :
          LET data == JwtSuccess("ann", 1, twoFA)
              none == [token |-> NoToken, refresh |-> NoToken, expiry |-> NoExpiry,
                       user |-> Null]
          IN /\ ls = saveAuthStore(apiLogin(none, data, 0).store, TokenOf(data),
                                   data.user[1], data.refresh_token)
             /\ authToken = TokenOf(data)
             /\ currentUser = <<data.user[1]>>
    /\ refreshPromise = NoPromise
    /\ pending2FA = Null
    /\ screen = "chat"
    /\ socket = <<[up |-> FALSE]>>
    /\ sockOut = <<>>
    /\ sendBuffer = <<>>
    /\ sockIn = <<>>
    /\ currentRoom = "general"
    /\ messages = <<>>
    /\ loading = {}
    /\ rooms = {}
    /\ registry = {"general", "off-topic"}
    /\ roomCalls = [k \in Calls |-> IdleCall]
    /\ roomLoads = loadRooms(NoLoads)
    /\ conn = [c \in Conns |-> NoConn]
    /\ members = [r \in Rooms |-> {}]
    /\ sent = Nothing
    /\ msgSeq = 0
    /\ last = NoOp
    /\ xch = <<>>
    /\ task = [t \in Tasks |-> IdleTask]
    /\ now = 0
    /\ issued = 1

NextAccount ==
    \/ \E t \in Tasks : HandleResend2FACode(t)
    \/ \E t \in Tasks, pw \in AccountPasswords : HandleDisable2FA(t, pw)
    \/ \E t \in Tasks, s \in {"ok", "unauthorized", "rejected"} : AccountResponse(t, s)
    \/ \E t \in Tasks : FetchAfterProactive(t)
    \/ \E t \in Tasks : FetchAfterReactive(t)
    \/ \E i \in 1..MaxExchanges, res \in {"ok", "denied", "neterr"}, e \in {0, LifetimeS} :
           RefreshSettle(i, res, e)
    \/ Tick
    \/ Logout

SpecAccount == InitAccount /\ [][NextAccount]_vars

\* ------------------------------------------ AuthManager.verifySession

\* AuthManager.loadAuth: the stored token and identity, when both are stored.
loadAuth(store) ==
    IF store.token # NoToken /\ store.user # Null
    THEN <<[token |-> store.token, user |-> store.user]>>
    ELSE Null

\* What api.verifyToken makes of the response to GET /api/verify: the body
\* ("valid" or "invalid") of an ok response, null for another status, and a
\* throw when the first fetch rejects; a rejected retry is swallowed by
\* fetchWithAuth, which then returns the 401 it had.
verifyToken(status, retried) ==
    IF status \in {"valid", "invalid"} THEN status
    ELSE IF status = "neterr" /\ ~retried THEN "throws"
    ELSE "null"

VerifyStatuses == {"valid", "invalid", "unauthorized", "rejected", "neterr"}

\* api.verifyToken() is called by the call r of slot t: fetchWithAuth up to
\* its first await.
VerifyTokenCall(t, r) ==
    IF isTokenExpiringSoon(ls, now) /\ ls.refresh # NoToken
    THEN LET x == refreshAccessToken(refreshPromise, ls.refresh, Len(xch)) IN
         /\ StartRefresh(x)
         /\ task' = [task EXCEPT ![t] =
              [r EXCEPT !.pc = "proRefresh", !.aw = x.promise, !.held = ls.token]]
    ELSE /\ task' = [task EXCEPT ![t] =
              [r EXCEPT !.pc = "opSent", !.hdr = getHeaders(ls), !.sends = @ + 1]]
         /\ UNCHANGED <<xch, refreshPromise>>

\* verifySession gives up: clearAuth(), return false; checkSession shows the
\* auth screen.
VerifyFails(t) ==
    /\ ClearAuth
    /\ task' = [task EXCEPT ![t] = Return(task[t], "false")]
    /\ UNCHANGED <<uiVars, xch, refreshPromise>>

\* verifySession has what verifyToken returned or threw (v): on "valid" it
\* stores the issuer's identity and returns true, and checkSession enters the
\* chat; on a throw of the first attempt it tries a recovery refresh if a
\* refresh token is stored; otherwise it gives up.
VerifyOutcome(t, v, twoFA) ==
    IF v = "valid"
    THEN LET user == <<[username |-> ls.user[1].username, email2FAEnabled |-> twoFA]>> IN
         /\ currentUser' = user
         /\ ls' = [ls EXCEPT !.user = user]
         /\ task' = [task EXCEPT ![t] = Return(task[t], "true")]
         /\ EnterChat
         /\ UNCHANGED <<authToken, pending2FA, xch, refreshPromise>>
    ELSE IF v = "throws" /\ task[t].ans = "none" /\ ls.refresh # NoToken
    THEN LET x == refreshAccessToken(refreshPromise, ls.refresh, Len(xch)) IN
         /\ StartRefresh(x)
         /\ task' = [task EXCEPT ![t].pc = "recRefresh", ![t].aw = x.promise,
                                 ![t].ans = "recovery"]
         /\ UNCHANGED <<ls, authVars, uiVars>>
    ELSE VerifyFails(t)

\* The page is loaded and the backend is healthy: App.checkSession calls
\* auth.verifySession(), which runs up to its first await.
VerifySessionCall(t) ==
    LET r == [IdleTask EXCEPT !.fn = "verifySession"] IN
    /\ NoMicrotasks
    /\ \A s \in Tasks : task[s] = IdleTask
    /\ Slot(t)
    /\ IF loadAuth(ls) = Null
       THEN /\ task' = [task EXCEPT ![t] = Return(r, "false")]
            /\ UNCHANGED <<authVars, xch, refreshPromise>>
       ELSE /\ authToken' = loadAuth(ls)[1].token
            /\ currentUser' = loadAuth(ls)[1].user
            /\ IF isTokenExpiringSoon(ls, now) /\ ls.refresh # NoToken
               THEN LET x == refreshAccessToken(refreshPromise, ls.refresh, Len(xch)) IN
                    /\ StartRefresh(x)
                    /\ task' = [task EXCEPT ![t] =
                         [r EXCEPT !.pc = "vsRefresh", !.aw = x.promise]]
               ELSE VerifyTokenCall(t, r)
            /\ UNCHANGED pending2FA
    /\ UNCHANGED <<ls, uiVars, now, issued>>

\* After verifySession's own proactive refresh, whatever its outcome.
VerifyAfterProactive(t) ==
    /\ task[t].pc = "vsRefresh"
    /\ Settled(task[t].aw)
    /\ VerifyTokenCall(t, task[t])
    /\ UNCHANGED <<ls, authVars, uiVars, now, issued>>

\* The response to GET /api/verify, or to its one retry, arrives.
VerifyResponse(t, status, twoFA) ==
    /\ NoMicrotasks
    /\ task[t].fn = "verifySession"
    /\ task[t].pc \in {"opSent", "retrySent"}
    /\ IF task[t].pc = "opSent" /\ refreshOn401(status, ls.refresh)
       THEN LET x == refreshAccessToken(refreshPromise, ls.refresh, Len(xch)) IN
            /\ StartRefresh(x)
            /\ task' = [task EXCEPT ![t].pc = "vsReRefresh", ![t].aw = x.promise,
                                    ![t].re = @ + 1]
            /\ UNCHANGED <<ls, authVars, uiVars>>
       ELSE VerifyOutcome(t, verifyToken(status, task[t].pc = "retrySent"), twoFA)
    /\ UNCHANGED <<now, issued>>

\* After the refresh that follows a 401 of GET /api/verify: retry once, or
\* verifyToken returns null for the 401.
VerifyAfterReactive(t) ==
    /\ task[t].pc = "vsReRefresh"
    /\ Settled(task[t].aw)
    /\ IF retryAfterRefresh(Outcome(task[t].aw))
       THEN /\ task' = [task EXCEPT ![t].pc = "retrySent", ![t].hdr = getHeaders(ls),
                                    ![t].sends = @ + 1]
            /\ UNCHANGED <<ls, refreshPromise, authVars, uiVars, xch>>
       ELSE VerifyOutcome(t, "null", FALSE)
    /\ UNCHANGED <<now, issued>>

\* After the recovery refresh: verify again with the new token, or give up.
VerifyAfterRecovery(t) ==
    /\ task[t].pc = "recRefresh"
    /\ Settled(task[t].aw)
    /\ IF Outcome(task[t].aw) = "fulfilled"
       THEN /\ VerifyTokenCall(t, task[t])
            /\ UNCHANGED <<ls, authVars, uiVars>>
       ELSE VerifyFails(t)
    /\ UNCHANGED <<now, issued>>

\* What an earlier session of ann can have left in localStorage.
EmptyStore == [token |-> NoToken, refresh |-> NoToken, expiry |-> NoExpiry, user |-> Null]

StoredAfter(data) ==
    saveAuthStore(apiLogin(EmptyStore, data, 0).store, TokenOf(data),
                  data.user[1], data.refresh_token)

StoredSessions ==
    LET left == {StoredAfter(JwtSuccess("ann", 1, FALSE)), StoredAfter(LegacySuccess("ann", 1))}
    IN {EmptyStore} \cup left \cup {clearTokens(st) : st \in left}

\* The page has just been loaded: nothing in memory, localStorage as an
\* earlier session left it.
InitVerify ==
    /\ ls \in StoredSessions
    /\ refreshPromise = NoPromise
    /\ authToken = NoToken
    /\ currentUser = Null
    /\ pending2FA = Null
    /\ screen = "auth"
    /\ socket = Null
    /\ sockOut = <<>>
    /\ sendBuffer = <<>>
    /\ sockIn = <<>>
    /\ currentRoom = "general"
    /\ messages = <<>>
    /\ loading = {}
    /\ rooms = {}
    /\ registry = {"general", "off-topic"}
    /\ roomCalls = [k \in Calls |-> IdleCall]
    /\ roomLoads = NoLoads
    /\ conn = [c \in Conns |-> NoConn]
    /\ members = [r \in Rooms |-> {}]
    /\ sent = Nothing
    /\ msgSeq = 0
    /\ last = NoOp
    /\ xch = <<>>
    /\ task = [t \in Tasks |-> IdleTask]
    /\ now = 0
    /\ issued = 1

NextVerify ==
    \/ \E t \in Tasks : VerifySessionCall(t)
    \/ \E t \in Tasks : VerifyAfterProactive(t)
    \/ \E t \in Tasks : FetchAfterProactive(t)
    \/ \E t \in Tasks, s \in VerifyStatuses, twoFA \in BOOLEAN : VerifyResponse(t, s, twoFA)
    \/ \E t \in Tasks : VerifyAfterReactive(t)
    \/ \E t \in Tasks : VerifyAfterRecovery(t)
    \/ \E i \in 1..MaxExchanges, res \in {"ok", "denied", "neterr"}, e \in {0, LifetimeS} :
           RefreshSettle(i, res, e)
    \/ Tick

SpecVerify == InitVerify /\ [][NextVerify]_vars

\* ------------------------------------------------------------------ claims

Awaiting(t) == task[t].pc \in {"proRefresh", "reRefresh", "awaitRefresh"}

PendingExchanges == {i \in DOMAIN xch : xch[i] = "pending"}

\* A refreshAccessToken() caller that has its outcome.
Observed(t) == task[t].fn = "refresh" /\ task[t].pc = "done" /\ task[t].aw # NoPromise

\* C1: single-flight refresh.  At most one POST /api/refresh exchange is in
\* flight at any time; every caller waiting while it is in flight waits for that
\* one exchange (the one refreshPromise holds), so no call made meanwhile starts
\* a second exchange; and the callers of one exchange observe the same outcome,
\* the outcome of that exchange.
C1_SingleFlight ==
    /\ Cardinality(PendingExchanges) <= 1
    /\ \A t \in Tasks :
         Awaiting(t) /\ ~Settled(task[t].aw) => task[t].aw = refreshPromise
    /\ \A t1, t2 \in Tasks : Awaiting(t1) /\ Awaiting(t2) => task[t1].aw = task[t2].aw
    /\ \A t \in Tasks : Observed(t) => task[t].result = Outcome(task[t].aw)
    /\ \A t1, t2 \in Tasks :
         Observed(t1) /\ Observed(t2) /\ task[t1].aw = task[t2].aw
            => task[t1].result = task[t2].result

\* Two callers joined one exchange, the only one made, and both have its outcome.
C1_Witness ==
    \E t1, t2 \in Tasks :
        /\ t1 # t2
        /\ Observed(t1) /\ Observed(t2)
        /\ task[t1].aw = task[t2].aw
        /\ Len(xch) = 1

\* The refresh awaited by t has failed: the issuer rejected it, or the transport did.
FailedWait(t) == Awaiting(t) /\ xch[task[t].aw] \in {"denied", "neterr"}

C2_FailureObserved ==
    \A t \in Tasks :
        Observed(t) /\ xch[task[t].aw] \in {"denied", "neterr"}
            => task[t].result = "rejected"

\* C2: a failed refresh is delivered to every waiter.  A caller whose refresh
\* ended in an issuer rejection or a transport error has observed a rejection,
\* never a success, and every caller waiting on a failed refresh leaves its wait:
\* none stays pending.
C2_FailureDelivered ==
    /\ []C2_FailureObserved
    /\ \A t \in Tasks : FailedWait(t) ~> ~Awaiting(t)

\* Two callers of one failed exchange have both observed the rejection.
C2_Witness ==
    \E t1, t2 \in Tasks :
        /\ t1 # t2
        /\ Observed(t1) /\ Observed(t2)
        /\ task[t1].aw = task[t2].aw
        /\ xch[task[t1].aw] = "denied"
        /\ task[t1].result = "rejected" /\ task[t2].result = "rejected"

Fetching(t) == task[t].fn = "fetch"

C3_Bounded ==
    \A t \in Tasks : Fetching(t) =>
        /\ task[t].sends <= 2
        /\ task[t].re <= 1
        /\ task[t].pc = "reRefresh" => task[t].sends = 1 /\ task[t].re = 1
        /\ task[t].pc = "retrySent" =>
             task[t].sends = 2 /\ task[t].re = 1 /\ Outcome(task[t].aw) = "fulfilled"
        /\ task[t].pc = "done" /\ task[t].sends = 2 => task[t].re = 1

C3_Step ==
    \A t \in Tasks :
        \* a 401 goes back to the caller without a refresh only when no refresh
        \* token is stored
        /\ task[t].pc = "opSent" /\ task'[t].pc = "done"
              /\ task'[t].result = "unauthorized" => ls.refresh = NoToken
        \* the refresh after a 401: one call, at most one new exchange
        /\ task[t].pc = "opSent" /\ task'[t].pc = "reRefresh" =>
              /\ ls.refresh # NoToken
              /\ task'[t].re = 1
              /\ Len(xch') <= Len(xch) + 1
        \* after that refresh: one retry if it succeeded, else the 401 is returned
        /\ task[t].pc = "reRefresh" /\ task'[t] # task[t] =>
              IF Outcome(task[t].aw) = "fulfilled"
              THEN task'[t].pc = "retrySent" /\ task'[t].sends = 2
              ELSE /\ task'[t].pc = "done"
                   /\ task'[t].result = "unauthorized"
                   /\ task'[t].sends = 1
        \* the retry's outcome is returned as it is: no further refresh or retry
        /\ task[t].pc = "retrySent" /\ task'[t] # task[t] =>
              /\ task'[t].pc = "done"
              /\ task'[t].result \in {"ok", "unauthorized"}
              /\ task'[t].sends = 2 /\ task'[t].re = 1
              /\ xch' = xch /\ refreshPromise' = refreshPromise

ExpiresWithinSkew ==
    /\ ls.expiry # NoExpiry
    /\ now > ls.expiry - RefreshSkewMs
    /\ ls.refresh # NoToken

C4_Step ==
    \A t \in Tasks :
        \* the call starts: it awaits one refresh exchange (a new one, or the one
        \* in flight) and has not sent the operation
        /\ Free(t) /\ task'[t].fn = "fetch" /\ ~Free(t)' /\ ExpiresWithinSkew =>
              /\ task'[t].pc = "proRefresh"
              /\ task'[t].sends = 0
              /\ IF refreshPromise = NoPromise
                 THEN /\ Len(xch') = Len(xch) + 1
                      /\ xch'[Len(xch')] = "pending"
                      /\ task'[t].aw = Len(xch')
                 ELSE /\ xch' = xch
                      /\ task'[t].aw = refreshPromise
        \* the refreshed token is accepted: the call returns, no other exchange
        /\ task[t].pc = "opSent" /\ task'[t].pc = "done" /\ task'[t].result = "ok" =>
              /\ xch' = xch
              /\ task'[t].re = 0

C4_Proceeds ==
    \A t \in Tasks :
        Fetching(t) /\ task[t].pc = "opSent" /\ task[t].aw # NoPromise =>
            Settled(task[t].aw) /\ task[t].sends = 1 /\ task[t].re = 0

\* C4: with the stored access token expiring within the 120 s skew (and a refresh
\* token stored), a fetchWithAuth call first awaits exactly one refresh exchange,
\* sends the operation only after that exchange has ended, and makes no other
\* refresh exchange when the operation is then accepted.
C4_RefreshBeforeProceeding == []C4_Proceeds /\ [][C4_Step]_vars

\* A call found the token expiring within the skew, refreshed it, and sent the
\* operation with the refreshed token.
C4_Witness ==
    \E t \in Tasks :
        /\ Fetching(t) /\ task[t].pc = "opSent"
        /\ task[t].aw # NoPromise /\ xch[task[t].aw] = "ok"
        /\ task[t].held # NoToken
        /\ task[t].hdr # task[t].held
        /\ task[t].hdr = ls.token
        /\ Len(xch) = 1

\* The operation of t is in flight after a proactive refresh that failed.
SentAfterFailedProactive(t) ==
    /\ Fetching(t) /\ task[t].pc = "opSent"
    /\ task[t].aw # NoPromise
    /\ xch[task[t].aw] \in {"denied", "neterr"}

\* C5 as claimed: after a failed proactive refresh the operation is sent with the
\* access token that was held before the refresh attempt.
C5_SentWithTokenHeldBefore ==
    \A t \in Tasks : SentAfterFailedProactive(t) => task[t].hdr = task[t].held

C5_Sent ==
    \A t \in Tasks : SentAfterFailedProactive(t) =>
        /\ task[t].sends = 1
        /\ xch[task[t].aw] = "denied" => task[t].hdr = NoToken

C5_Step ==
    /\ \A t \in Tasks :
          task[t].pc = "proRefresh" /\ task'[t] # task[t] =>
              /\ task'[t].pc = "opSent"
              /\ task'[t].hdr = ls.token
    /\ \A i \in DOMAIN xch :
          /\ xch[i] = "pending" /\ xch'[i] = "neterr" => ls' = ls
          /\ xch[i] = "pending" /\ xch'[i] = "denied" =>
                ls'.token = NoToken /\ ls'.refresh = NoToken

\* C5, amended: a failed proactive refresh does not abort the operation; the
\* operation is sent with the access token stored at that moment.  A transport
\* error leaves the stored tokens as they were; an issuer rejection has cleared
\* them, and the operation is then sent without an access token.
C5_SentWithStoredToken == []C5_Sent /\ [][C5_Step]_vars

\* The issuer rejected the proactive refresh and the operation went out with no token.
C5_Witness ==
    \E t \in Tasks :
        /\ SentAfterFailedProactive(t)
        /\ xch[task[t].aw] = "denied"
        /\ task[t].held # NoToken
        /\ task[t].hdr = NoToken

\* C6: when the issuer rejects a refresh the whole Credential is cleared: right
\* after the rejection no access token, refresh token, expiry or identity is
\* held, in localStorage or in the AuthManager, and the client does not count as
\* authenticated.
C6_RejectionClearsCredential ==
    [][\A i \in DOMAIN xch :
          xch[i] = "pending" /\ xch'[i] = "denied" =>
              /\ ls'.token = NoToken
              /\ ls'.refresh = NoToken
              /\ ls'.expiry = NoExpiry
              /\ ls'.user = Null
              /\ authToken' = NoToken
              /\ currentUser' = Null]_vars

\* C7: in every reachable state, no access token stored means no identity held:
\* no cached user, in the AuthManager or in localStorage, and isAuthenticated()
\* false.
C7_NoTokenNoIdentity ==
    ls.token = NoToken =>
        /\ currentUser = Null
        /\ ls.user = Null
        /\ ~isAuthenticated

\* C8: every authenticate handshake the client emits when a transport opens
\* carries the access token that is current at that moment, the one stored by
\* the latest issue or refresh.
C8_HandshakeCurrentToken ==
    [][/\ Len(sockOut') = Len(sockOut) + 1
       /\ sockOut'[Len(sockOut')].type = "authenticate"
       => sockOut'[Len(sockOut')].token = ls'.token]_vars

\* The login call of t gets the answer "second factor required" in this step.
C9_Step ==
    \A t \in Tasks :
        task[t].pc = "loginSent" /\ task'[t].ans = "requires_2fa" =>
            /\ task'[t].pc = "done"
            /\ task'[t].result = "requires2FA"
            /\ pending2FA' = <<[username |-> task[t].user,
                                password |-> task[t].pass,
                                emailHint |-> EmailHint(task[t].user)]>>
            /\ ls' = ls
            /\ authToken' = authToken
            /\ currentUser' = currentUser

\* C9: Idle -> AwaitingSecondFactor.  When the issuer answers a login with
\* "second factor required", the login stores no access token and no identity
\* (localStorage and the AuthManager's token and user are left as they were) and
\* records a PendingStepUp with the submitted username and password and the
\* issuer's email hint.
C9_AwaitingSecondFactor == [][C9_Step]_vars

\* A login was answered "second factor required": its PendingStepUp is recorded
\* and no token or identity is held.
C9_Witness ==
    /\ \E t \in Tasks : task[t].fn = "login" /\ task[t].result = "requires2FA"
    /\ pending2FA # Null
    /\ pending2FA[1].emailHint = EmailHint(pending2FA[1].username)
    /\ ls.token = NoToken /\ authToken = NoToken /\ currentUser = Null

C10_Request ==
    \A t \in Tasks :
        task[t].pc = "twoFASent" =>
            /\ task[t].user \in Usernames
            /\ task[t].pass \in Passwords
            /\ Len(task[t].code) = CodeLength

C10_Step ==
    \A t \in Tasks :
        \* the request is made only with a PendingStepUp, and carries its
        \* username and password with the code
        /\ task[t].pc # "twoFASent" /\ task'[t].pc = "twoFASent" =>
              /\ pending2FA # Null
              /\ task'[t].user = pending2FA[1].username
              /\ task'[t].pass = pending2FA[1].password
              /\ task'[t].code \in Codes
        \* the issuer accepts: the token is issued and the PendingStepUp cleared
        /\ task[t].pc = "twoFASent" /\ task'[t].ans = "success" =>
              /\ task'[t].result = "success"
              /\ ls'.token = issued' /\ issued' = issued + 1
              /\ authToken' = ls'.token
              /\ currentUser' # Null /\ ls'.user = currentUser'
              /\ currentUser'[1].username = task[t].user
              /\ pending2FA' = Null

\* C10: AwaitingSecondFactor -> Verified.  login2FA sends a request only when a
\* PendingStepUp exists, always with that pending's username and password
\* together with the code; when the issuer accepts, the token is issued (stored
\* with the identity) and the PendingStepUp is cleared.
C10_Verified == []C10_Request /\ [][C10_Step]_vars

\* A second-factor login was accepted: token and identity held, no PendingStepUp.
C10_Witness ==
    /\ \E t \in Tasks :
          task[t].fn = "login2fa" /\ task[t].pc = "done" /\ task[t].result = "success"
    /\ pending2FA = Null
    /\ authToken # NoToken /\ authToken = ls.token
    /\ currentUser # Null /\ currentUser[1].email2FAEnabled

C11_Step ==
    \A t \in Tasks :
        task[t].pc = "twoFASent" /\ task'[t].ans = "rejected" =>
            /\ task'[t].pc = "done"
            /\ task'[t].result = "error"
            /\ pending2FA' = pending2FA
            /\ ls' = ls
            /\ authToken' = authToken
            /\ currentUser' = currentUser
            /\ screen' = screen

\* After a rejected code the step-up is still pending: the next code is
\* submitted with the credentials of the PendingStepUp that was held.
C11_Retry ==
    \A t \in Tasks :
        /\ task[t].fn = "login2fa" /\ task[t].pc = "done"
        /\ task[t].ans = "rejected" /\ pending2FA # Null
        /\ task'[t].pc = "twoFASent"
        => /\ task'[t].user = pending2FA[1].username
           /\ task'[t].pass = pending2FA[1].password
           /\ pending2FA' = pending2FA

\* C11: an incorrect second-factor code.  When the issuer rejects the code the
\* call returns an error and nothing else changes: the PendingStepUp held is the
\* same, no token or identity is stored, the client stays on the auth screen; a
\* code submitted afterwards goes out with the same pending credentials.
C11_RejectedCodeKeepsPending == [][C11_Step /\ C11_Retry]_vars

\* A code was rejected: the PendingStepUp is still held, nothing is stored.
C11_Witness ==
    /\ \E t \in Tasks :
          /\ task[t].fn = "login2fa" /\ task[t].pc = "done"
          /\ task[t].ans = "rejected" /\ task[t].result = "error"
    /\ pending2FA # Null
    /\ ls.token = NoToken /\ authToken = NoToken /\ currentUser = Null
    /\ screen = "auth"

\* C12: cancellation or a new login attempt discards the PendingStepUp.  After
\* cancelPending2FA no PendingStepUp is held; after a login call has returned,
\* whatever the issuer answered, the PendingStepUp held before it is gone: none
\* is held after a success or a rejection, and after "second factor required"
\* the one held is that of the new attempt.
C12_NewLoginDiscardsPending ==
    [][/\ \A t \in Tasks :
            task[t].pc = "loginSent" /\ task'[t].pc = "done" =>
                IF task'[t].ans = "requires_2fa"
                THEN pending2FA' = <<[username |-> task[t].user,
                                      password |-> task[t].pass,
                                      emailHint |-> EmailHint(task[t].user)]>>
                ELSE pending2FA' = Null
       /\ (pending2FA # Null /\ task' = task /\ ls' = ls /\ pending2FA' # pending2FA)
            => pending2FA' = Null]_vars

\* C13: a PendingStepUp and an issued Credential never coexist.
C13_PendingExcludesCredential ==
    pending2FA # Null =>
        /\ authToken = NoToken
        /\ currentUser = Null
        /\ ls.token = NoToken

\* C14: the step-up flow cancelled while its verification is in flight.  When
\* the answer to a verification request arrives and no PendingStepUp is held any
\* more, the flow issues no token: nothing is stored, the client does not enter
\* the chat and no PendingStepUp is held, also when the issuer accepted the code.
C14_CancelledFlowIssuesNothing ==
    [][\A t \in Tasks :
          task[t].pc = "twoFASent" /\ pending2FA = Null /\ task'[t].pc = "done" =>
              /\ ls' = ls
              /\ authToken' = authToken
              /\ currentUser' = currentUser
              /\ screen' = screen
              /\ pending2FA' = Null]_vars

\* No Credential is held and the auth screen is shown: never logged in, or logged out.
LoggedOut ==
    /\ screen = "auth"
    /\ ls = [token |-> NoToken, refresh |-> NoToken, expiry |-> NoExpiry, user |-> Null]
    /\ authToken = NoToken
    /\ currentUser = Null

\* C15: the Credential is destroyed on logout.  Logout leaves the client logged
\* out, and a logged-out client stays so (no access token, refresh token, expiry
\* or identity stored) in every step but a successful login or registration,
\* which enters the chat; also when a refresh exchange completes meanwhile.
C15_LogoutDestroysCredential ==
    [][/\ (screen = "chat" /\ screen' = "auth") => LoggedOut'
       /\ (LoggedOut /\ screen' = "auth") => LoggedOut']_vars

\* C16: at every instant each connection is a member of at most one room; a
\* join that puts a connection in a different room removes it from the room it
\* was in; and a switchRoom that changes the room emits leave for the old room
\* and then join for the new one, in that order.
C16_Inv == \A c \in Conns : Cardinality(RoomsOf(members, c)) <= 1

C16_Step ==
    /\ \A c \in Conns, q \in Rooms, r \in Rooms :
          (c \in members[q] /\ r # q /\ c \in members'[r]) => c \notin members'[q]
    /\ (currentRoom' # currentRoom /\ socket' # Null) =>
          sockOut' \o sendBuffer' =
              sockOut \o sendBuffer \o
                  <<[type |-> "leave", room |-> currentRoom],
                    [type |-> "join", room |-> currentRoom']>>

C16_AtMostOneRoom == []C16_Inv /\ [][C16_Step]_vars

\* This client has switched to off-topic and is a member of it, and a join of
\* another member to a different room has just taken it out of off-topic.
C16_Witness ==
    /\ currentRoom = "off-topic"
    /\ Me \in members["off-topic"]
    /\ \E p \in Peers :
          /\ sent[p] = <<[type |-> "room_joined", room |-> "general"]>>
          /\ sent[Me] = <<[type |-> "user_left", username |-> p]>>
          /\ members["general"] = {p}

\* C17: a join for the room the connection is in already leaves every room's
\* members as they are and delivers nothing, so no second joined notification;
\* a joined notification about a connection is delivered only by a step that
\* puts it in a room it was not in; and switchRoom to the current room leaves
\* the current room, the events emitted and the loads in flight as they are.
C17_Rejoin ==
    (last'.ev.type = "join" /\ last'.conn \in members[last'.ev.room]) =>
        /\ members' = members
        /\ sent' = Nothing

C17_Joined ==
    \A c \in Conns, d \in Conns :
        (\E i \in 1..Len(sent'[d]) :
             sent'[d][i] = [type |-> "user_joined", username |-> c]) =>
        \E r \in Rooms : c \notin members[r] /\ c \in members'[r] /\ d \in members[r]

C17_SwitchToCurrent ==
    (last'.ev.type = "switchRoom" /\ last'.ev.room = currentRoom) =>
        UNCHANGED <<currentRoom, sockOut, sendBuffer, loading, messages, socket>>

C17_JoinIdempotent == [][C17_Rejoin /\ C17_Joined /\ C17_SwitchToCurrent]_vars

\* A member of the room this client is in has just asked to join that room
\* again, and nothing was delivered.
C17_Witness ==
    /\ last.ev.type = "join"
    /\ last.conn \in Peers
    /\ {last.conn, Me} \subseteq members[last.ev.room]
    /\ sent = Nothing

\* C18: when the server accepts a message for room R, exactly one new_message
\* with its content is delivered to each connection that is a member of R at
\* that instant and nothing to any other connection; new_message is delivered
\* by no other step; the client sends a message for the room it is in when it
\* sends, and adds each new_message it receives to its messages exactly once.
C18_Message(ev, id) ==
    [type |-> "new_message", id |-> id, content |-> ev.content, room |-> ev.room]

C18_FanOut ==
    (last'.ev.type = "message" /\ conn[last'.conn].identity) =>
        \A d \in Conns :
            sent'[d] = IF d \in members[last'.ev.room] /\ d \in members'[last'.ev.room]
                       THEN <<C18_Message(last'.ev, msgSeq')>>
                       ELSE <<>>

C18_OnlyFanOut ==
    \A d \in Conns : \A i \in 1..Len(sent'[d]) :
        sent'[d][i].type = "new_message" =>
            /\ last'.ev.type = "message"
            /\ sent'[d][i].room = last'.ev.room
            /\ d \in members[last'.ev.room]

C18_Client ==
    /\ (last'.ev.type = "sendMessage" /\ Trim(last'.ev.content) # <<>>) =>
          sockOut' \o sendBuffer' =
              sockOut \o sendBuffer \o
                  <<[type |-> "message", content |-> Trim(last'.ev.content),
                     room |-> currentRoom]>>
    /\ (last'.ev.type = "new_message" /\ last'.conn = Me /\ socket' # Null) =>
          messages' = messages \o <<last'.ev.id>>

C18_RoomScopedFanOut == [][C18_FanOut /\ C18_OnlyFanOut /\ C18_Client]_vars

\* A message for the room this client is in has just been fanned out: one
\* new_message is on its way to this client, none to the connection that is in
\* the other room.
C18_Witness ==
    /\ last.ev.type = "message"
    /\ Me \in members[last.ev.room]
    /\ sent[Me] = <<C18_Message(last.ev, msgSeq)>>
    /\ \E p \in Peers :
          /\ RoomsOf(members, p) # {}
          /\ p \notin members[last.ev.room]
          /\ sent[p] = <<>>

\* C19: a connection that is a member of a room is authenticated, and a room
\* event (new_message, user_joined, user_left, user_typing) is delivered only to
\* a connection that is authenticated, whatever it has asked for.
C19_RoomEvents == {"new_message", "user_joined", "user_left", "user_typing"}

C19_Members == \A c \in Conns : RoomsOf(members, c) # {} => conn[c].identity

C19_Delivered ==
    \A d \in Conns : \A i \in 1..Len(sent'[d]) :
        sent'[d][i].type \in C19_RoomEvents => conn[d].identity /\ conn'[d].identity

C19_Received ==
    \A i \in 1..Len(sockIn) :
        sockIn[i].type \in C19_RoomEvents => conn[Me].identity

C19_RoomOnlyIfAuthenticated ==
    [](C19_Members /\ C19_Received) /\ [][C19_Delivered]_vars

\* This client's join has just been handled on a connection whose handshake
\* has not succeeded: it is in no room, while the room asked for has a member.
C19_Witness ==
    /\ last.conn = Me
    /\ last.ev.type = "join"
    /\ conn[Me].live
    /\ ~conn[Me].identity
    /\ RoomsOf(members, Me) = {}
    /\ \E p \in Peers : p \in members[last.ev.room]
    /\ sent = Nothing

\* C20: when the client handles authenticated with success false, it raises
\* auth_failed and the step ends with the stored Credential, the AuthManager
\* fields and the PendingStepUp cleared, the auth screen shown, no socket held,
\* the server's Connection gone and nothing emitted; and while no socket is held
\* no event, so no join, is in flight or buffered.
C20_Step ==
    (last'.ev.type = "authenticated" /\ ~last'.ev.success) =>
        /\ onAuthenticated(last'.ev) = "auth_failed"
        /\ ls' = [token |-> NoToken, refresh |-> NoToken, expiry |-> NoExpiry,
                  user |-> Null]
        /\ authToken' = NoToken
        /\ currentUser' = Null
        /\ pending2FA' = Null
        /\ ~isAuthenticated'
        /\ screen' = "auth"
        /\ socket' = Null
        /\ ~conn'[Me].live
        /\ sockOut' = <<>>
        /\ sendBuffer' = <<>>

C20_Quiet == socket = Null => (sockOut = <<>> /\ sendBuffer = <<>> /\ ~conn[Me].live)

C20_RejectedHandshake == []C20_Quiet /\ [][C20_Step]_vars

\* The client has just handled a rejected handshake.
C20_Witness ==
    /\ last = Op(Me, [type |-> "authenticated", success |-> FALSE])
    /\ socket = Null
    /\ authToken = NoToken
    /\ pending2FA = Null

\* C21: when the client handles authenticated with success true, on a first
\* connection or on a later one, it emits one join for the room it has
\* selected; a connection that has just opened is in no room and has no
\* identity, whatever the previous one had; and once the handshake has
\* succeeded and everything the client emitted has been handled, the connection
\* is a member of the selected room and of no other.
C21_Rejoin ==
    (last'.conn = Me /\ last'.ev.type = "authenticated" /\ last'.ev.success) =>
        /\ sockOut' = sockOut \o <<[type |-> "join", room |-> currentRoom]>>
        /\ UNCHANGED <<currentRoom, socket>>

C21_NothingCarried ==
    (socket' # Null /\ socket'[1].up /\ (socket = Null \/ ~socket[1].up)) =>
        /\ RoomsOf(members', Me) = {}
        /\ conn'[Me] = [live |-> TRUE, identity |-> FALSE]

C21_Settled ==
    (/\ socket # Null
     /\ socket[1].up
     /\ conn[Me].identity
     /\ sockOut = <<>>
     /\ \A i \in 1..Len(sockIn) : sockIn[i].type # "authenticated") =>
        RoomsOf(members, Me) = {currentRoom}

C21_RejoinAfterHandshake == []C21_Settled /\ [][C21_Rejoin /\ C21_NothingCarried]_vars

\* The client has just handled a successful handshake while off-topic is the
\* room selected, and asks to join it on a connection that is in no room.
C21_Witness ==
    /\ last = Op(Me, [type |-> "authenticated", success |-> TRUE])
    /\ currentRoom = "off-topic"
    /\ RoomsOf(members, Me) = {}
    /\ sockOut = <<[type |-> "join", room |-> "off-topic"]>>

\* C22: RoomsManager.deleteRoom refuses general before any request, and the
\* registry answers a delete of general with RoomProtected: either way the
\* cached list, the rooms that exist, the members, the selected room and the
\* events emitted are unchanged.  A delete of another room that exists, once it
\* reaches the registry, succeeds and the room no longer exists; a room comes to
\* exist only by an accepted createRoom of that name, and every listing that
\* loadRooms gets is the set of rooms that exist, so the deleted room is in no
\* listing until it is created again.
C22_GeneralRefused ==
    /\ (last'.ev.type = "deleteRoom" /\ last'.ev.name = "general") =>
           /\ last'.ev.result = "protected"
           /\ UNCHANGED <<rooms, registry, roomCalls, members, currentRoom,
                          sockOut, sendBuffer>>
    /\ (last'.ev.type = "deleteRoomAnswer" /\ last'.ev.name = "general") =>
           /\ last'.ev.result = "RoomProtected"
           /\ UNCHANGED <<rooms, registry, members, currentRoom, sockOut, sendBuffer>>

C22_OtherDeleted ==
    (/\ last'.ev.type = "deleteRoomAnswer"
     /\ last'.ev.name # "general"
     /\ last'.ev.name \in registry
     /\ last'.ev.result # "failed") =>
        /\ last'.ev.result = "deleted"
        /\ registry' = registry \ {last'.ev.name}

C22_Listing ==
    /\ (/\ last'.ev.type \in {"loadRoomsDone", "createRoomDone", "deleteRoomDone"}
        /\ last'.ev.loaded) => rooms' = registry
    /\ \A n \in registry' \ registry :
           last'.ev = [type |-> "createRoomAnswer", name |-> n, result |-> "created"]

C22_DeleteRoom == [][C22_GeneralRefused /\ C22_OtherDeleted /\ C22_Listing]_vars

\* deleteRoom of off-topic, the room selected, has finished: the list loaded
\* is without it and general is selected.
C22_Witness ==
    /\ last = Op(Me, [type |-> "deleteRoomDone", name |-> "off-topic", loaded |-> TRUE])
    /\ "off-topic" \notin rooms
    /\ "general" \in rooms
    /\ currentRoom = "general"

\* C23: createRoom sends the name trimmed, lower-cased and with each run of
\* white space turned into one '-' ('  My Room  ' and 'my  room' both give
\* 'my-room'); it refuses a name that is empty or not of 2 to 20 characters
\* once normalized, and one that is in its room list; the registry accepts a
\* name of 2 to 20 characters that does not exist and answers RoomAlreadyExists
\* for one that does.  Whenever a creation is refused, at the client or by the
\* registry, the rooms that exist and the room list are unchanged.
C23_Normal(input) ==
    CASE input = <<" ", " ", "M", "y", " ", "R", "o", "o", "m", " ", " ">> -> "my-room"
      [] input = <<"m", "y", " ", " ", "r", "o", "o", "m">> -> "my-room"
      [] input = <<"G", "e", "n", "e", "r", "a", "l">> -> "general"
      [] input = <<"a">> -> "a"
      [] input = <<" ">> -> ""
      [] Len(input) = 20 -> "aaaaaaaaaaaaaaaaaaaa"
      [] Len(input) = 21 -> "aaaaaaaaaaaaaaaaaaaaa"

C23_Client ==
    last'.ev.type = "createRoom" =>
        LET n == C23_Normal(last'.ev.input) IN
        /\ last'.ev.result =
               IF n = "" THEN "empty"
               ELSE IF Len(n) < 2 \/ Len(n) > 20 THEN "length"
               ELSE IF n \in rooms THEN "exists"
               ELSE "sent"
        /\ UNCHANGED <<rooms, registry>>
        /\ IF last'.ev.result = "sent"
           THEN \E k \in Calls :
                   /\ roomCalls[k].pc = "idle"
                   /\ roomCalls'[k].op = "create"
                   /\ roomCalls'[k].name = n
           ELSE UNCHANGED roomCalls

C23_Registry ==
    last'.ev.type = "createRoomAnswer" =>
        LET n == last'.ev.name IN
        /\ last'.ev.result = "created" =>
               /\ n \notin registry
               /\ Len(n) >= 2
               /\ Len(n) <= 20
               /\ registry' = registry \cup {n}
        /\ last'.ev.result = "RoomAlreadyExists" => n \in registry
        /\ last'.ev.result # "created" => UNCHANGED <<rooms, registry>>
        /\ (last'.ev.result # "failed" /\ n \in registry) =>
               last'.ev.result = "RoomAlreadyExists"

C23_CreateRoom == [][C23_Client /\ C23_Registry]_vars

\* my-room is in the room list and '  My Room  ' is submitted again: createRoom
\* refuses it.
C23_Witness ==
    /\ last = Op(Me, [type |-> "createRoom",
                      input |-> <<" ", " ", "M", "y", " ", "R", "o", "o", "m", " ", " ">>,
                      result |-> "exists"])
    /\ "my-room" \in rooms
    /\ "my-room" \in registry

\* C24: no step of a createRoom call of this client (the submission, refused
\* or sent; the answer to its POST, accepting or rejecting; its return after
\* the list is reloaded) changes the room selected or the rooms the connection
\* is a member of, and none emits a socket event (join, leave or other).
C24_Step ==
    (/\ last'.conn = Me
     /\ last'.ev.type \in {"createRoom", "createRoomAnswer", "createRoomDone"}) =>
        /\ UNCHANGED <<currentRoom, sockOut, sendBuffer, members, loading>>
        /\ RoomsOf(members', Me) = RoomsOf(members, Me)

C24_CreateDoesNotJoin == [][C24_Step]_vars

\* createRoom of my-room has returned with the list reloaded: the room is
\* listed, and off-topic is still the room selected and joined.
C24_Witness ==
    /\ last = Op(Me, [type |-> "createRoomDone", name |-> "my-room", loaded |-> TRUE])
    /\ "my-room" \in rooms
    /\ currentRoom = "off-topic"
    /\ RoomsOf(members, Me) = {"off-topic"}
    /\ sockOut = <<>>

\* C25: when a connection ends (its transport is lost, the client calls
\* socket.disconnect() or replaces the socket), it is removed from the members
\* of every room and nothing else changes in them; each other connection that
\* shared a room with it is delivered one user_left naming it, and no other
\* connection is delivered anything.  A connection that never authenticated
\* is in no room, so its end delivers nothing to anyone.
C25_Step ==
    \A c \in Conns :
        (conn[c].live /\ ~conn'[c].live) =>
            /\ members' = Without(members, c)
            /\ \A d \in Conns :
                   sent'[d] =
                       IF d # c /\ \E r \in Rooms : c \in members[r] /\ d \in members[r]
                       THEN <<[type |-> "user_left", username |-> c]>>
                       ELSE <<>>
            /\ ~conn[c].identity => sent' = Nothing

C25_Disconnect == [][C25_Step]_vars

\* The other client was in general with this one and its transport is lost:
\* it is no longer a member and this client is delivered user_left.
C25_Witness ==
    /\ last = Op(1, [type |-> "disconnect"])
    /\ sent[Me] = <<[type |-> "user_left", username |-> 1]>>
    /\ members["general"] = {Me}
    /\ ~conn[1].live

\* C26: no caller waits forever.  Every POST /api/refresh that was started
\* stops being pending, and every caller of refreshAccessToken or fetchWithAuth
\* that waits for a refresh leaves its wait, also in the behaviours in which
\* the issuer never answers (the continuations are fair, the issuer's answers
\* are not).
C26_NoWaitForever ==
    /\ \A i \in 1..MaxExchanges :
           (i \in PendingExchanges) ~> (i \notin PendingExchanges)
    /\ \A t \in Tasks : Awaiting(t) ~> ~Awaiting(t)

\* C27: while no refresh token is stored and no refresh is in flight, no step
\* starts a POST /api/refresh; a refreshAccessToken() call made then throws
\* NoRefreshToken at once and leaves the stored token, refresh token and expiry
\* as they were; a fetchWithAuth call that starts or gets its response then
\* goes to no refresh (neither the proactive one nor the one after a 401) and
\* leaves them as they were too.
C27_Step ==
    (ls.refresh = NoToken /\ refreshPromise = NoPromise) =>
        /\ xch' = xch
        /\ refreshPromise' = NoPromise
        /\ \A t \in Tasks :
               (Free(t) /\ task'[t] # task[t] /\ task'[t].fn = "refresh") =>
                   /\ task'[t].pc = "done"
                   /\ task'[t].result = "noRefreshToken"
                   /\ task'[t].aw = NoPromise
                   /\ ls' = ls
        /\ \A t \in Tasks :
               (task'[t] # task[t] /\ task'[t].fn = "fetch") =>
                   /\ task'[t].pc \notin {"proRefresh", "reRefresh"}
                   /\ task'[t].re = IF Free(t) THEN 0 ELSE task[t].re
                   /\ ls' = ls

C27_NoRefreshToken == [][C27_Step]_vars

\* With no refresh token stored, a refreshAccessToken() call has thrown
\* NoRefreshToken and a fetchWithAuth call has returned its 401 after one
\* send, without any refresh of its own.
C27_Witness ==
    \E t1, t2 \in Tasks :
        /\ task[t1].fn = "refresh" /\ task[t1].result = "noRefreshToken"
        /\ task[t2].fn = "fetch" /\ task[t2].result = "unauthorized"
        /\ task[t2].sends = 1 /\ task[t2].re = 0 /\ task[t2].aw = NoPromise
        /\ ls.refresh = NoToken
        /\ refreshPromise = NoPromise

\* C28: isTokenExpiringSoon is true exactly when no expiry is stored or the
\* clock is strictly past the expiry less 120 seconds (120000 ms); at
\* now = expiry - 120000 it is false.  fetchWithAuth, with a refresh token
\* stored, starts with the proactive refresh exactly in those cases.
C28_Value ==
    /\ isTokenExpiringSoon(ls, now) = (ls.expiry = NoExpiry \/ now > ls.expiry - 120000)
    /\ (ls.expiry # NoExpiry /\ now = ls.expiry - 120000) => ~isTokenExpiringSoon(ls, now)

C28_Use ==
    \A t \in Tasks :
        (Free(t) /\ task'[t] # task[t] /\ task'[t].fn = "fetch" /\ ls.refresh # NoToken) =>
            (task'[t].pc = "proRefresh") = (ls.expiry = NoExpiry \/ now > ls.expiry - 120000)

C28_ExpiringSoon == []C28_Value /\ [][C28_Use]_vars

\* At the boundary, now = expiry - 120 s, a fetchWithAuth call has sent its
\* operation without refreshing first.
C28_Witness ==
    \E t \in Tasks :
        /\ task[t].fn = "fetch" /\ task[t].pc = "opSent"
        /\ task[t].sends = 1 /\ task[t].aw = NoPromise
        /\ ls.refresh # NoToken
        /\ ls.expiry # NoExpiry
        /\ now = ls.expiry - 120000

\* C29: a resend of the second-factor code starts only while a step-up is
\* pending (AwaitingSecondFactor), and no step of a resend call, whatever the
\* issuer answers, changes the pending step-up, the stored credential or the
\* identity and token in memory.
C29_Step ==
    \A t \in Tasks :
        (task'[t] # task[t] /\ task'[t].fn = "resend") =>
            /\ Free(t) => pending2FA # Null
            /\ UNCHANGED <<pending2FA, ls, authToken, currentUser>>

C29_ResendOnlyAwaiting == [][C29_Step]_vars

\* C30: the identity's email2FAEnabled flag, in memory or stored, goes from
\* true to false only in the step in which a disable2FA call that carries a
\* password gets the issuer's acceptance; a disable2FA call is sent only with
\* a password; and the step in which the issuer's rejection of it is returned
\* changes neither the flag nor anything else of the credential.
C30_Flag(user) == user # Null /\ user[1].email2FAEnabled

C30_Step ==
    /\ ((C30_Flag(currentUser) /\ currentUser' # Null /\ ~C30_Flag(currentUser'))
         \/ (C30_Flag(ls.user) /\ ls'.user # Null /\ ~C30_Flag(ls'.user))) =>
           \E t \in Tasks :
               /\ task[t].fn = "disable"
               /\ task[t].pc \in {"opSent", "retrySent"}
               /\ task[t].pass # ""
               /\ task'[t].pc = "done"
               /\ task'[t].result = "ok"
    /\ \A t \in Tasks :
           (task'[t] # task[t] /\ task'[t].fn = "disable") =>
               /\ Free(t) => task'[t].pass # ""
               /\ task'[t].result # "ok" =>
                      UNCHANGED <<ls, authToken, currentUser, pending2FA>>

C31_Failure ==
    /\ last'.conn = Me
    /\ \/ last'.ev.type \in {"reject", "error"}
       \/ /\ last'.ev.type \in {"createRoom", "deleteRoom"}
          /\ last'.ev.result # "sent"
       \/ /\ last'.ev.type \in {"createRoomAnswer", "deleteRoomAnswer"}
          /\ last'.ev.result \notin {"created", "deleted"}

C31_Step ==
    C31_Failure =>
        /\ UNCHANGED <<socket, conn, members, currentRoom>>
        /\ UNCHANGED <<ls, authToken, currentUser, pending2FA, screen>>
        /\ UNCHANGED <<sockOut, sendBuffer>>

C32_Step ==
    issued' # issued =>
        ls'.expiry \in {now + (LifetimeS * 1000), NoExpiry}

C32_ExpiryOfThisToken == [][C32_Step]_vars

\* C33 as first stated: once some refresh has completed and none is in
\* flight, the next refreshAccessToken() call starts a new exchange.
C33_NextCallStartsExchange ==
    [][\A t \in Tasks :
          (/\ Free(t) /\ task'[t] # task[t] /\ task'[t].fn = "refresh"
           /\ xch # <<>>
           /\ PendingExchanges = {}) =>
              Len(xch') = Len(xch) + 1]_vars

\* C33: the single-flight guard is released whenever a refresh settles.  A
\* refresh is recorded as in flight only while its exchange is pending; the
\* step in which an exchange ends (success, rejection by the issuer, transport
\* error) leaves none recorded; and a refreshAccessToken() call made when none
\* is in flight never gets an old outcome: with a refresh token stored it
\* starts a new exchange and waits for that one, and without one (as after a
\* rejection, which clears the tokens) it throws NoRefreshToken.
C33_Released ==
    refreshPromise # NoPromise => refreshPromise \in PendingExchanges

C33_Step ==
    /\ (PendingExchanges' # PendingExchanges /\ Len(xch') = Len(xch)) =>
           refreshPromise' = NoPromise
    /\ \A t \in Tasks :
           (/\ Free(t) /\ task'[t] # task[t] /\ task'[t].fn = "refresh"
            /\ PendingExchanges = {}) =>
               IF ls.refresh # NoToken
               THEN /\ Len(xch') = Len(xch) + 1
                    /\ xch'[Len(xch')] = "pending"
                    /\ task'[t].aw = Len(xch')
                    /\ refreshPromise' = Len(xch')
               ELSE /\ xch' = xch
                    /\ task'[t].result = "noRefreshToken"
                    /\ task'[t].aw = NoPromise

C33_GuardReleased == []C33_Released /\ [][C33_Step]_vars

\* A first refresh has failed on the transport, and a later call has started
\* a second exchange and waits for it.
C33_Witness ==
    /\ Len(xch) = 2
    /\ xch[1] = "neterr"
    /\ xch[2] = "pending"
    /\ refreshPromise = 2
    /\ \E t \in Tasks : task[t].fn = "refresh" /\ task[t].pc = "awaitRefresh" /\ task[t].aw = 2

\* C34: the step in which a refresh exchange ends with success stores the new
\* access token, and the expiry when a lifetime is declared, and nothing else:
\* the stored refresh token, the stored identity, the identity and token in
\* memory and the pending step-up are what they were.
C34_Step ==
    \A i \in 1..MaxExchanges :
        (i \in PendingExchanges /\ xch'[i] = "ok") =>
            /\ ls'.token = issued'
            /\ ls'.token # ls.token
            /\ ls'.refresh = ls.refresh
            /\ ls'.user = ls.user
            /\ ls'.expiry \in {ls.expiry, now + (LifetimeS * 1000)}
            /\ UNCHANGED <<currentUser, authToken, pending2FA>>

C34_RefreshReplacesTokenOnly == [][C34_Step]_vars

\* A refresh has succeeded: the access token is the second one issued, the
\* refresh token and the identity are those of the login.
C34_Witness ==
    /\ xch = <<"ok">>
    /\ ls.token = 2
    /\ ls.refresh = 1
    /\ ls.user = <<[username |-> "ann", email2FAEnabled |-> FALSE]>>
    /\ currentUser = ls.user

\* C35: the client puts a join, leave or message event on a connection only
\* after that connection has received authenticated with success, so no such
\* event is ever on the wire while the connection's own authenticate event
\* is still on its way to the server.
C35_OnlyAfterHandshake ==
    \A i \in DOMAIN sockOut :
        sockOut[i].type \in {"join", "leave", "message"} =>
            \A j \in DOMAIN sockOut : sockOut[j].type # "authenticate"

\* C36: the client has at most one live socket, whatever sequence of logins,
\* connects and logouts led here, and without a socket nothing is in flight
\* to or from the application handlers.
C36_OneLiveSocket ==
    /\ Len(socket) <= 1
    /\ socket = Null => sockIn = <<>> /\ sockOut = <<>> /\ sendBuffer = <<>>

\* A connect has just replaced a socket that was held.
C36_Witness ==
    /\ last = Op(Me, [type |-> "connect", replaced |-> TRUE])
    /\ Len(socket) = 1

\* C37: whenever verifySession has returned false, the stored access token,
\* refresh token, expiry and identity, the identity and token in memory and
\* the pending step-up are all cleared.
C37_FalseClearsAll ==
    \A t \in Tasks :
        (task[t].fn = "verifySession" /\ task[t].pc = "done" /\ task[t].result = "false") =>
            /\ ls = EmptyStore
            /\ authToken = NoToken
            /\ currentUser = Null
            /\ pending2FA = Null

\* C38 as stated: a deleteRoom(name) that succeeded leaves the current room
\* general if it was name and unchanged otherwise, and at no moment is the
\* current room a room whose deletion by this client has been answered.
C38_Step ==
    last'.ev.type = "deleteRoomDone" =>
        /\ currentRoom' = IF currentRoom = last'.ev.name THEN "general" ELSE currentRoom
        /\ currentRoom' # last'.ev.name

C38_InDeletedRoom ==
    \E k \in Calls : /\ roomCalls[k].op = "delete"
                     /\ roomCalls[k].pc = "loadSent"
                     /\ currentRoom = roomCalls[k].name

C38_NeverInDeletedRoom == [][C38_Step]_vars /\ []~C38_InDeletedRoom

\* C38: when a deleteRoom(name) that succeeded returns, the current room is
\* general if it was name when the call resumed and is unchanged otherwise, so
\* it is not the room deleted; while the call awaits its loadRooms the current
\* room may still be the room deleted.
C38_AfterDeleteRoom == [][C38_Step]_vars

\* deleteRoom has just returned after deleting the room the client was in: the
\* leave of that room is on its way.
C38_Witness ==
    /\ last.ev.type = "deleteRoomDone"
    /\ currentRoom = "general"
    /\ \E i \in DOMAIN (sockOut \o sendBuffer) :
           (sockOut \o sendBuffer)[i] = [type |-> "leave", room |-> last.ev.name]

\* C39: every logout (the button, or the handshake refused) leaves the client
\* as it was at the start: no socket and nothing in flight on it, no access
\* token, refresh token, expiry or identity stored or in memory, no pending
\* step-up, current room general, room list and message list empty.
C39_Step ==
    (screen = "chat" /\ screen' = "auth") =>
        /\ socket' = Null /\ sockOut' = <<>> /\ sendBuffer' = <<>> /\ sockIn' = <<>>
        /\ ls' = EmptyStore
        /\ authToken' = NoToken
        /\ currentUser' = Null
        /\ pending2FA' = Null
        /\ currentRoom' = "general"
        /\ rooms' = {}
        /\ messages' = <<>>

C40_Blank(c) == \A i \in DOMAIN c : c[i] = " "

C40_IsTrimOf(body, c) ==
    /\ body # <<>>
    /\ Head(body) # " "
    /\ body[Len(body)] # " "
    /\ \E i \in 0..Len(c), j \in 0..Len(c) :
          /\ i + j <= Len(c)
          /\ body = SubSeq(c, i + 1, Len(c) - j)
          /\ \A k \in 1..i : c[k] = " "
          /\ \A k \in (Len(c) - j + 1)..Len(c) : c[k] = " "

C40_Step ==
    last'.ev.type = "sendMessage" =>
        LET c == last'.ev.content
            before == sockOut \o sendBuffer
            after == sockOut' \o sendBuffer'
        IN IF C40_Blank(c)
           THEN ~last'.ev.returned /\ sockOut' = sockOut /\ sendBuffer' = sendBuffer
           ELSE /\ last'.ev.returned
                /\ Len(after) = Len(before) + 1
                /\ SubSeq(after, 1, Len(before)) = before
                /\ after[Len(after)].type = "message"
                /\ after[Len(after)].room = currentRoom
                /\ C40_IsTrimOf(after[Len(after)].content, c)

C40_SendMessage == [][C40_Step]_vars

\* The input " a" has just been submitted in the room off-topic: the message
\* "a" for off-topic is the latest event emitted.
C40_Witness ==
    /\ last.ev.type = "sendMessage"
    /\ last.ev.content = <<" ", "a">>
    /\ currentRoom = "off-topic"
    /\ sockOut \o sendBuffer # <<>>
    /\ (sockOut \o sendBuffer)[Len(sockOut \o sendBuffer)] =
           [type |-> "message", content |-> <<"a">>, room |-> "off-topic"]

====
